---------------------------- MODULE Spec2Model ----------------------------
(***************************************************************************)
(* RunbookQuery retrieval runtime: the TTL + LRU query cache               *)
(* (retrieval/cache.py), the search orchestrator (api/service.py), the     *)
(* BM25 retriever (retrieval/bm25.py) and the versioned index manager      *)
(* (indexing/manager.py).                                                  *)
(***************************************************************************)
EXTENDS Integers, Sequences, FiniteSets, TLC

(***************************************************************************)
(* Bounds of the model.                                                    *)
(***************************************************************************)
MaxCap == 2        \* largest max_size a cache is constructed with
MaxTopK == 2       \* top_k values 1..MaxTopK (distinct cache keys)
MaxGets == 2       \* get calls counted by _hits + _misses
MaxQueryLen == 2   \* longest query string of the key model
Ttl == 1           \* ttl_seconds a cache is constructed with
NThreads == 2      \* threads calling one cache
MaxListLen == 2    \* longest list value of a filter
MaxBuilds == 2     \* build_indexes calls made
MaxExtraWords == 2 \* words a content has beyond one snippet window
MaxWordLen == 6    \* characters of the longest word of a content

MaxTime == Ttl + 1    \* the clock time.time() runs over 0..MaxTime

(***************************************************************************)
(* Sequence helpers.                                                       *)
(***************************************************************************)
Range(s) == {s[i] : i \in 1..Len(s)}

Min(a, b) == IF a <= b THEN a ELSE b

RemoveAt(s, i) == SubSeq(s, 1, i - 1) \o SubSeq(s, i + 1, Len(s))

IndexOf(s, x) == CHOOSE i \in 1..Len(s) : s[i] = x

Remove(s, x) == IF x \in Range(s) THEN RemoveAt(s, IndexOf(s, x)) ELSE s

(***************************************************************************)
(* QueryCache._make_key.  A query is a sequence of characters.  filters is *)
(* None or a dict: [none |-> TRUE] or [none |-> FALSE, items |-> d], where *)
(* d lists the dict's items in insertion order, each item a record         *)
(* [key, none, list] whose value is None (none = TRUE) or the list `list`. *)
(***************************************************************************)
Chars == {"a", "A", " "}

\* str.lower() on the model alphabet
LowerChar(c) == IF c = "A" THEN "a" ELSE c

Lower(q) == [i \in 1..Len(q) |-> LowerChar(q[i])]

\* str.strip(): drop leading and trailing whitespace
RECURSIVE LStrip(_)
LStrip(q) == IF q # <<>> /\ Head(q) = " " THEN LStrip(Tail(q)) ELSE q

RECURSIVE RStrip(_)
RStrip(q) ==
    IF q # <<>> /\ q[Len(q)] = " " THEN RStrip(SubSeq(q, 1, Len(q) - 1)) ELSE q

Strip(q) == RStrip(LStrip(q))

\* alphabetical rank of the filter keys the route builds (routes/search.py)
KeyRank(k) == IF k = "projects" THEN 1 ELSE IF k = "source_types" THEN 2 ELSE 3

\* json.dumps(..., sort_keys=True) on a dict: the items ordered by key.
\* List values are written in the order they have.
RECURSIVE SortKeys(_)
SortKeys(d) ==
    IF d = <<>> THEN <<>>
    ELSE LET i == CHOOSE i \in 1..Len(d) :
                    \A j \in 1..Len(d) : KeyRank(d[i].key) <= KeyRank(d[j].key)
         IN  <<d[i]>> \o SortKeys(RemoveAt(d, i))

NoFilters == [none |-> TRUE]

\* `filters or {}`: None and the empty dict both become {}
FiltersOrEmpty(f) == IF f.none THEN <<>> ELSE f.items

\* The key is the SHA-256 prefix of the canonical JSON text; the digest is
\* modelled as injective on that text, so the key is the canonical value.
make_key(query, filters, top_k) ==
    [query |-> Strip(Lower(query)),
     filters |-> SortKeys(FiltersOrEmpty(filters)),
     top_k |-> top_k]

(***************************************************************************)
(* The corpus.  A chunk is [id, content, emb, source_type, project,        *)
(* source_id]: content is its text, emb its similarity to a query under    *)
(* the embedding model (an opaque function), source_type and project the   *)
(* type and project of its document's Source, source_id the id of that     *)
(* Source, written as its parts between "-".  The metadata store holds no  *)
(* chunks at first and then the corpora below one after the other; a       *)
(* corpus is named by its position (0: no chunks).                         *)
(***************************************************************************)
Chunk(id, content, emb, st, sid) ==
    [id |-> id, content |-> content, emb |-> emb, source_type |-> st,
     project |-> "k8s", source_id |-> sid]

\* cli.py:64  the id "<name>-docs" of a markdown source, the like id of an
\* issues source, and an id of the form "project-type:..." (service.py:191)
DocsSourceId == <<"k8s", "docs">>

IssuesSourceId == <<"k8s", "issues">>

TaggedIssuesSourceId == <<"k8s", "issues:gh">>

Corpora ==
    << <<Chunk("c1", <<"a", "a">>, 2, "docs", DocsSourceId),
         Chunk("c2", <<"a", "a", " ", "a", "a">>, 3, "issues", TaggedIssuesSourceId),
         Chunk("c3", <<"a", " ", "a">>, 1, "issues", IssuesSourceId)>>,
       <<Chunk("c1", <<"a", "a", " ", "A", "a">>, 1, "docs", DocsSourceId),
         Chunk("c2", <<"a", "a", " ", "a">>, 2, "issues", TaggedIssuesSourceId)>> >>

CorpusIds == 0..Len(Corpora)

ChunksOf(i) == IF i = 0 THEN <<>> ELSE Corpora[i]

\* bm25.py:100-109  lowercase, runs of [a-z0-9], drop one-letter tokens
IsAlnum(c) == c \in {"a", "b", "1"}

RECURSIVE Runs(_, _)
Runs(text, run) ==
    IF text = <<>> THEN (IF run = <<>> THEN <<>> ELSE <<run>>)
    ELSE IF IsAlnum(Head(text)) THEN Runs(Tail(text), Append(run, Head(text)))
    ELSE (IF run = <<>> THEN <<>> ELSE <<run>>) \o Runs(Tail(text), <<>>)

IsDigits(tok) == \A i \in 1..Len(tok) : tok[i] = "1"

KeepToken(tok) == Len(tok) > 1 \/ IsDigits(tok)

tokenize(text) == SelectSeq(Runs(Lower(text), <<>>), KeepToken)

\* bm25.py:47-50  the chunk-id table and the tokenized corpus of a chunk list
ChunkIds(i) == [n \in 1..Len(ChunksOf(i)) |-> ChunksOf(i)[n].id]

TokenizedCorpus(i) == [n \in 1..Len(ChunksOf(i)) |-> tokenize(ChunksOf(i)[n].content)]

\* occurrences of token t in the token list doc
RECURSIVE Count(_, _)
Count(doc, t) ==
    IF doc = <<>> THEN 0 ELSE (IF Head(doc) = t THEN 1 ELSE 0) + Count(Tail(doc), t)

RECURSIVE SumTf(_, _)
SumTf(doc, q) == IF q = <<>> THEN 0 ELSE Count(doc, Head(q)) + SumTf(doc, Tail(q))

\* bm25.py:79  self._index.get_scores(query_tokens): one score per document of
\* the corpus the BM25Okapi object was built from.  The library's score is
\* modelled by the number of occurrences of the query tokens in the document.
get_scores(index, query_tokens) ==
    [n \in 1..Len(TokenizedCorpus(index)) |-> SumTf(TokenizedCorpus(index)[n], query_tokens)]

\* list.sort(key=score, reverse=True): stable, descending by s.score
RECURSIVE SortDesc(_)
SortDesc(l) ==
    IF l = <<>> THEN <<>>
    ELSE LET i == CHOOSE i \in 1..Len(l) :
                    /\ \A j \in 1..Len(l) : l[i].score >= l[j].score
                    /\ \A j \in 1..(i - 1) : l[j].score < l[i].score
         IN  <<l[i]>> \o SortDesc(RemoveAt(l, i))

Take(l, n) == SubSeq(l, 1, Min(n, Len(l)))

\* the in-memory BM25Retriever [chunk_ids, corpus, index]: the corpus whose
\* chunk-id table, whose tokenized corpus and whose BM25Okapi object it holds
\* (0: empty list, None)
BM25Empty == [chunk_ids |-> 0, corpus |-> 0, index |-> 0]

\* bm25.py:152-155
bm25_is_ready(r) == r.index # 0 /\ Len(ChunkIds(r.chunk_ids)) > 0

\* bm25.py:82  zip(self._chunk_ids, scores): as long as the shorter of the two
Zip(ids, scores) ==
    [n \in 1..Min(Len(ids), Len(scores)) |-> [chunk_id |-> ids[n], score |-> scores[n]]]

\* a plausible slip: documents that score 0 are kept
top_scored_KeepsZero(chunk_ids, scores, top_k) ==
    LET scored == SortDesc(Zip(chunk_ids, scores))
        pos(x) == x.score >= 0
    IN  SelectSeq(Take(scored, top_k), pos)

\* bm25.py:82-86  zip, sort by score descending, cut to top_k, keep score > 0
top_scored(chunk_ids, scores, top_k) ==
    LET scored == SortDesc(Zip(chunk_ids, scores))
        pos(x) == x.score > 0
    IN  SelectSeq(Take(scored, top_k), pos)

\* bm25.py:59-88  BM25Retriever.search, reading the index `index` and the
\* chunk-id table of `ids`
bm25_search_on(index, ids, query, top_k) ==
    IF index = 0 \/ ChunkIds(ids) = <<>> THEN <<>>
    ELSE IF tokenize(query) = <<>> THEN <<>>
    ELSE top_scored(ChunkIds(ids), get_scores(index, tokenize(query)), top_k)

bm25_search(r, query, top_k) == bm25_search_on(r.index, r.chunk_ids, query, top_k)

\* the in-memory VectorRetriever [index, chunk_ids]
\* the output dimension of the embedding model, and another dimension
ModelDim == "model"

OtherDim == "other"

\* dim: the dimension d of the FAISS index object held
VectorEmpty == [index |-> 0, chunk_ids |-> 0, dim |-> ModelDim]

\* vector.py:182-185
vector_is_ready(r) == r.index # 0 /\ Len(ChunkIds(r.chunk_ids)) > 0

\* vector.py:71-103  VectorRetriever.search: the top rows of the FAISS index
\* by inner product, each mapped through the chunk-id table when in range
vector_search(r, query, top_k) ==
    IF r.index = 0 \/ ChunkIds(r.chunk_ids) = <<>> THEN <<>>
    ELSE LET rows == [n \in 1..Len(ChunksOf(r.index)) |->
                        [row |-> n, score |-> ChunksOf(r.index)[n].emb]]
             top == Take(SortDesc(rows), Min(top_k, Len(ChunkIds(r.chunk_ids))))
             inr(x) == x.row <= Len(ChunkIds(r.chunk_ids))
             hits == SelectSeq(top, inr)
         IN  [n \in 1..Len(hits) |->
                [chunk_id |-> ChunkIds(r.chunk_ids)[hits[n].row], score |-> hits[n].score]]

(***************************************************************************)
(* Hybrid retrieval.  A score is the fraction n / d, so that reciprocal    *)
(* ranks add and compare exactly.  A HybridResult is                       *)
(* [chunk_id, final_score, bm25_rank, bm25_score, vector_rank,             *)
(* vector_score]; rank 0 stands for a retriever that did not return the    *)
(* chunk (its rank and score are None).                                    *)
(***************************************************************************)
rrf_k == 60

\* hybrid.py:32-33  bm25_weight = vector_weight = 0.5
bm25_weight == [n |-> 1, d |-> 2]

vector_weight == [n |-> 1, d |-> 2]

Frac(n) == [n |-> n, d |-> 1]

FracAdd(x, y) == [n |-> x.n * y.d + y.n * x.d, d |-> x.d * y.d]

FracLess(x, y) == x.n * y.d < y.n * x.d

\* a plausible slip: the term grows with the rank
RrfTerm_Inverted(w, rank) ==
    IF rank = 0 THEN Frac(0) ELSE [n |-> w.n * (rrf_k + rank), d |-> w.d]

\* hybrid.py:128, 138  weight * (1.0 / (rrf_k + rank)); nothing for rank 0
RrfTerm(w, rank) ==
    IF rank = 0 THEN Frac(0) ELSE [n |-> w.n, d |-> w.d * (rrf_k + rank)]

\* the rank (from 1) of chunk id in a retriever's result list, 0 if absent
RECURSIVE RankIn(_, _)
RankIn(results, id) ==
    IF results = <<>> THEN 0
    ELSE IF results[Len(results)].chunk_id = id /\ RankIn(Take(results, Len(results) - 1), id) = 0
    THEN Len(results)
    ELSE RankIn(Take(results, Len(results) - 1), id)

ScoreAt(results, rank) == IF rank = 0 THEN 0 ELSE results[rank].score

\* sorted(scores.items(), key=lambda x: -x[1]): stable, descending
RECURSIVE SortByFinal(_)
SortByFinal(l) ==
    IF l = <<>> THEN <<>>
    ELSE LET i == CHOOSE i \in 1..Len(l) :
                    /\ \A j \in 1..Len(l) : ~FracLess(l[i].final_score, l[j].final_score)
                    /\ \A j \in 1..(i - 1) : FracLess(l[j].final_score, l[i].final_score)
         IN  <<l[i]>> \o SortByFinal(RemoveAt(l, i))

\* hybrid.py:109-165  the keys of the scores dict in insertion order (BM25
\* results first, then the chunks only the dense retriever returned), each
\* with the sum of its reciprocal ranks, sorted and cut to top_k
rrf_fuse(wb, wv, bm25_results, vector_results, top_k) ==
    LET new(x) == RankIn(bm25_results, x.chunk_id) = 0
        keys == bm25_results \o SelectSeq(vector_results, new)
        item(id) ==
            LET rb == RankIn(bm25_results, id)
                rv == RankIn(vector_results, id)
            IN  [chunk_id |-> id,
                 final_score |-> FracAdd(RrfTerm(wb, rb), RrfTerm(wv, rv)),
                 bm25_rank |-> rb, bm25_score |-> ScoreAt(bm25_results, rb),
                 vector_rank |-> rv, vector_score |-> ScoreAt(vector_results, rv)]
    IN  Take(SortByFinal([n \in 1..Len(keys) |-> item(keys[n].chunk_id)]), top_k)

\* the fusion of a HybridRetriever made with the default weights
reciprocal_rank_fusion(bm25_results, vector_results, top_k) ==
    rrf_fuse(bm25_weight, vector_weight, bm25_results, vector_results, top_k)

\* hybrid.py:55
fetch_k == 100

\* hybrid.py:51-75  HybridRetriever.search
hybrid_search(b, v, query, top_k) ==
    reciprocal_rank_fusion(
        IF bm25_is_ready(b) THEN bm25_search(b, query, fetch_k) ELSE <<>>,
        IF vector_is_ready(v) THEN vector_search(v, query, fetch_k) ELSE <<>>,
        top_k)

\* hybrid.py:77-91
search_bm25_only(b, query, top_k) ==
    LET results == bm25_search(b, query, top_k)
    IN  [n \in 1..Len(results) |->
            [chunk_id |-> results[n].chunk_id, final_score |-> Frac(results[n].score),
             bm25_rank |-> n, bm25_score |-> results[n].score,
             vector_rank |-> 0, vector_score |-> 0]]

\* hybrid.py:93-107
search_vector_only(v, query, top_k) ==
    LET results == vector_search(v, query, top_k)
    IN  [n \in 1..Len(results) |->
            [chunk_id |-> results[n].chunk_id, final_score |-> Frac(results[n].score),
             bm25_rank |-> 0, bm25_score |-> 0,
             vector_rank |-> n, vector_score |-> results[n].score]]

\* service.py:130-154  raises: the dense search, when called, raises
\* vector.py:95  self._index.search(query_embedding, k) raises when the query
\* embedding has not the dimension of the index; raises: it raises for another
\* reason (the model cannot be loaded, the embedding fails)
dense_raises(v, raises) == raises \/ v.dim # ModelDim

\* a plausible slip: a dense failure is answered with nothing
retrieve_with_fallback_Empty(b, v, query, top_k, raises) ==
    IF vector_is_ready(v) /\ dense_raises(v, raises)
    THEN [results |-> <<>>, mode |-> "bm25_only"]
    ELSE IF vector_is_ready(v) /\ bm25_is_ready(b)
    THEN [results |-> hybrid_search(b, v, query, top_k), mode |-> "hybrid"]
    ELSE IF bm25_is_ready(b)
    THEN [results |-> search_bm25_only(b, query, top_k), mode |-> "bm25_only"]
    ELSE IF vector_is_ready(v)
    THEN [results |-> search_vector_only(v, query, top_k), mode |-> "vector_only"]
    ELSE [results |-> <<>>, mode |-> "hybrid"]

\* a plausible slip: the branches for one ready retriever test the wrong one
retrieve_with_fallback_Swapped(b, v, query, top_k, raises) ==
    IF vector_is_ready(v) /\ dense_raises(v, raises)
    THEN (IF bm25_is_ready(b)
          THEN [results |-> search_bm25_only(b, query, top_k), mode |-> "bm25_only"]
          ELSE [results |-> <<>>, mode |-> "bm25_only"])
    ELSE IF vector_is_ready(v) /\ bm25_is_ready(b)
    THEN [results |-> hybrid_search(b, v, query, top_k), mode |-> "hybrid"]
    ELSE IF vector_is_ready(v)
    THEN [results |-> search_bm25_only(b, query, top_k), mode |-> "bm25_only"]
    ELSE IF bm25_is_ready(b)
    THEN [results |-> search_vector_only(v, query, top_k), mode |-> "vector_only"]
    ELSE [results |-> <<>>, mode |-> "hybrid"]

retrieve_with_fallback(b, v, query, top_k, raises) ==
    IF vector_is_ready(v) /\ dense_raises(v, raises)
    THEN (IF bm25_is_ready(b)
          THEN [results |-> search_bm25_only(b, query, top_k), mode |-> "bm25_only"]
          ELSE [results |-> <<>>, mode |-> "bm25_only"])
    ELSE IF vector_is_ready(v) /\ bm25_is_ready(b)
    THEN [results |-> hybrid_search(b, v, query, top_k), mode |-> "hybrid"]
    ELSE IF bm25_is_ready(b)
    THEN [results |-> search_bm25_only(b, query, top_k), mode |-> "bm25_only"]
    ELSE IF vector_is_ready(v)
    THEN [results |-> search_vector_only(v, query, top_k), mode |-> "vector_only"]
    ELSE [results |-> <<>>, mode |-> "hybrid"]

\* the chunk with this id in the metadata store holding corpus i
InStore(i, id) == \E n \in 1..Len(ChunksOf(i)) : ChunksOf(i)[n].id = id

StoreChunk(i, id) == ChunksOf(i)[CHOOSE n \in 1..Len(ChunksOf(i)) : ChunksOf(i)[n].id = id]

\* ":" in source_id, "issues" in source_id: a part holds the substring
HasColon(sid) == \E n \in 1..Len(sid) : sid[n] \in {"issues:gh"}

HasIssues(sid) == \E n \in 1..Len(sid) : sid[n] \in {"issues", "issues:gh"}

\* service.py:192-199  the source_type and project the service gives a
\* result: "docs" and "unknown" unless the source id holds a ":"
result_source_type(sid) ==
    IF HasColon(sid) /\ HasIssues(sid) THEN "issues" ELSE "docs"

result_project(sid) == IF HasColon(sid) THEN sid[1] ELSE "unknown"

\* service.py:156-217  results whose chunk the store no longer has are
\* dropped, the others keep their order and gain the document's fields
enrich_results(results, store) ==
    LET has(r) == InStore(store, r.chunk_id)
        kept == SelectSeq(results, has)
    IN  [n \in 1..Len(kept) |->
            [chunk_id |-> kept[n].chunk_id,
             source_type |-> result_source_type(StoreChunk(store, kept[n].chunk_id).source_id),
             project |-> result_project(StoreChunk(store, kept[n].chunk_id).source_id),
             scores |-> kept[n]]]

\* filters.get(key): the list under key, <<>> when the key is absent or None
RECURSIVE FilterGet(_, _)
FilterGet(items, key) ==
    IF items = <<>> THEN <<>>
    ELSE IF Head(items).key = key THEN Head(items).list
    ELSE FilterGet(Tail(items), key)

\* service.py:260-272
apply_filters(results, items) ==
    LET bySource(r) == r.source_type \in Range(FilterGet(items, "source_types"))
        byProject(r) == r.project \in Range(FilterGet(items, "projects"))
        f1 == IF FilterGet(items, "source_types") # <<>>
              THEN SelectSeq(results, bySource) ELSE results
    IN  IF FilterGet(items, "projects") # <<>> THEN SelectSeq(f1, byProject) ELSE f1

\* service.py:86-94, 119  the list the search caches and the list it returns
Enriched(results, req, store) ==
    IF FiltersOrEmpty(req.filters) # <<>>
    THEN apply_filters(enrich_results(results, store), req.filters.items)
    ELSE enrich_results(results, store)

(***************************************************************************)
(* State.                                                                  *)
(***************************************************************************)
VARIABLES
    max_size,      \* QueryCache.max_size
    ttl_seconds,   \* QueryCache.ttl_seconds
    cache_order,   \* keys of the OrderedDict _cache, oldest first
    cache_entry,   \* key -> CacheEntry [results, created_at, hits]
    c_hits,        \* QueryCache._hits
    c_misses,      \* QueryCache._misses
    now,           \* time.time()
    last,          \* the last call made, what it returned and what it found
    stored,        \* per key, the set call whose entry the cache holds
    hist,          \* history of the calls made so far (for the LRU law)
    lookups,       \* the (query, filters, top_k) lookups made and their keys
    th,            \* per thread, the call it is in and where
    gets_done,     \* the get calls that returned and that raised; whether a set raised
    db,            \* the corpus the metadata store holds
    bm25,          \* the BM25Retriever singleton
    vector,        \* the VectorRetriever singleton
    dirs,          \* index_dir: per version name, the directory and its files
    current,       \* the symlink index_dir/current
    bld,           \* the build_indexes call in progress
    srch,          \* the search call suspended at the metadata store
    resp,          \* the last SearchResponse returned
    answered,      \* per key, the completed search whose entry the cache holds
    loaded,        \* what load_indexes left in memory, whether one returned true
    obs,           \* what an observer of index_dir/current last resolved
    heap,          \* the list objects allocated, by reference
    inst,          \* two BM25Retriever instances: the one that builds, a fresh one
    saved          \* the file BM25Retriever.save wrote

cacheVars == <<max_size, ttl_seconds, cache_order, cache_entry, c_hits, c_misses, now>>

keyVars == <<lookups>>

thrVars == <<th, gets_done>>

svcVars == <<db, bm25, vector, dirs, current, bld, srch, resp, answered, loaded, obs>>

auxVars == <<heap, inst, saved>>

vars == <<cacheVars, last, stored, hist, keyVars, thrVars, svcVars, auxVars>>

(***************************************************************************)
(* QueryCache on the value [order, entry] of the OrderedDict.              *)
(***************************************************************************)
EmptyDict == [order |-> <<>>, entry |-> <<>>]

\* the dict without key k
DictDel(c, k) ==
    [order |-> Remove(c.order, k),
     entry |-> [j \in Range(c.order) \ {k} |-> c.entry[j]]]

\* a plausible slip: evict only above capacity
RECURSIVE EvictOldest_Gt(_, _)
EvictOldest_Gt(c, cap) ==
    IF Len(c.order) > cap /\ c.order # <<>>
    THEN EvictOldest_Gt(DictDel(c, Head(c.order)), cap)
    ELSE c

\* cache.py:114-115  while len(self._cache) >= self.max_size: popitem(last=False)
RECURSIVE EvictOldest(_, _)
EvictOldest(c, cap) ==
    IF Len(c.order) >= cap /\ c.order # <<>>
    THEN EvictOldest(DictDel(c, Head(c.order)), cap)
    ELSE c

\* cache.py:117-120  self._cache[key] = CacheEntry(results, created_at=time.time())
\* An OrderedDict keeps the position of a key that is already present.
DictStore(c, k, results, t) ==
    [order |-> IF k \in Range(c.order) THEN c.order ELSE Append(c.order, k),
     entry |-> [j \in Range(c.order) \cup {k} |->
                  IF j = k THEN [results |-> results, created_at |-> t, hits |-> 0]
                  ELSE c.entry[j]]]

\* QueryCache.set
CacheSet(c, cap, k, results, t) == DictStore(EvictOldest(c, cap), k, results, t)

\* a plausible slip: an entry expires at age ttl_seconds already
Expired_Ge(e, t, ttl) == t - e.created_at >= ttl

\* cache.py:83  time.time() - entry.created_at > self.ttl_seconds
Expired(e, t, ttl) == t - e.created_at > ttl

\* a plausible slip: a hit leaves the key where it is
MoveToEnd_Noop(order, k) == order

\* cache.py:89  self._cache.move_to_end(key)
MoveToEnd(order, k) == Append(Remove(order, k), k)

\* QueryCache.get: the dict afterwards, the value returned (found = FALSE is
\* None) and the increments of _hits and _misses
CacheGet(c, k, t, ttl) ==
    IF k \notin Range(c.order)
    THEN [dict |-> c, found |-> FALSE, results |-> <<>>, hit |-> 0, miss |-> 1]
    ELSE IF Expired(c.entry[k], t, ttl)
    THEN [dict |-> DictDel(c, k), found |-> FALSE, results |-> <<>>,
          hit |-> 0, miss |-> 1]
    ELSE [dict |-> [order |-> MoveToEnd(c.order, k),
                    entry |-> [c.entry EXCEPT ![k].hits = @ + 1]],
          found |-> TRUE, results |-> c.entry[k].results, hit |-> 1, miss |-> 0]

Dict == [order |-> cache_order, entry |-> cache_entry]

\* QueryCache.size
size == Len(cache_order)

(* The calls the model makes on one QueryCache.                            *)
(***************************************************************************)
CacheQueries == {<<" ", "A">>}

CacheReqs ==
    [query : CacheQueries, filters : {NoFilters}, top_k : 1..MaxTopK]

\* the calls of the LRU runs: one key more than the largest capacity
LruReqs ==
    [query : CacheQueries, filters : {NoFilters}, top_k : 1..(MaxCap + 1)]

KeyOf(req) == make_key(req.query, req.filters, req.top_k)

AllKeys == {KeyOf(req) : req \in CacheReqs \cup LruReqs}

\* an enriched result list, by the chunk ids it holds
ResultLists == {<<>>, <<"c1">>}

NoKey == [none |-> TRUE]

SomeKey(k) == [none |-> FALSE, key |-> k]

NoSet == [none |-> TRUE]

(***************************************************************************)
(* History kept beside the cache.  stored: per key the arguments of the    *)
(* set call that stored the entry the cache still holds.  hist: the keys   *)
(* read by a get hit since they were stored (hit), per key the stored keys *)
(* that had neither an insert nor a hit since its last hit (stale), and    *)
(* the count and distinctness of the set calls made so far.                *)
(***************************************************************************)
StoredInit == [k \in AllKeys |-> NoSet]

StoredDrop(st, gone) == [k \in AllKeys |-> IF k \in gone THEN NoSet ELSE st[k]]

HistInit ==
    [nSets |-> 0, distinct |-> TRUE, first |-> NoKey, seen |-> {},
     everHit |-> {}, hit |-> {}, stale |-> [k \in AllKeys |-> {}]]

\* keys gone go out of every record
HistDrop(h, gone) ==
    [h EXCEPT !.hit = @ \ gone,
              !.stale = [k \in AllKeys |-> IF k \in gone THEN {} ELSE @[k] \ gone]]

HistAfterGet(h, c, k, r) ==
    IF r.found
    THEN [h EXCEPT !.everHit = @ \cup {k},
                   !.hit = @ \cup {k},
                   !.stale = [j \in AllKeys |->
                                IF j = k THEN Range(c.order) \ {k} ELSE @[j] \ {k}]]
    ELSE HistDrop(h, Range(c.order) \ Range(r.dict.order))

HistAfterSet(h, c, c2, k) ==
    LET gone == (Range(c.order) \ Range(c2.order))
                \cup (IF k \in Range(c.order) /\ c2.order[Len(c2.order)] # k
                      THEN {} ELSE {k})
        h1 == HistDrop(h, gone)
    IN  [h1 EXCEPT !.nSets = @ + 1,
                   !.distinct = @ /\ k \notin h.seen,
                   !.first = IF h.first.none THEN SomeKey(k) ELSE @,
                   !.seen = @ \cup {k}]

NoCall == [op |-> "none"]

Threads == 1..NThreads

IdleThread == [pc |-> "idle"]

(***************************************************************************)
(* The search service and the index manager: requests, version             *)
(* directories, the values of an idle task.                                *)
(***************************************************************************)
SvcQueries == {<<"A", "a">>}

SvcFilters ==
    {NoFilters, [none |-> FALSE, items |-> <<[key |-> "source_types", none |-> FALSE, list |-> <<"docs">>]>>]}

SvcReqs == [query : SvcQueries, filters : SvcFilters, top_k : {MaxTopK}]

SvcKeys == {make_key(req.query, req.filters, req.top_k) : req \in SvcReqs}

AnsweredInit == [k \in SvcKeys |-> NoSet]

AnsweredDrop(a, gone) == [k \in SvcKeys |-> IF k \in gone THEN NoSet ELSE a[k]]

\* datetime.now().strftime("v%Y%m%d_%H%M%S"): one name per second
Versions == 0..MaxTime

NoFile == [none |-> TRUE]

NoDir == [exists |-> FALSE, bm25 |-> NoFile, faiss |-> NoFile, idmap |-> NoFile]

NoLink == [none |-> TRUE]

Link(v) == [none |-> FALSE, version |-> v]

\* n: the build_indexes calls made so far
IdleBuild == [pc |-> "idle", n |-> 0]

IdleSearch == [pc |-> "idle"]

NoResp == [none |-> TRUE]

NotLoaded ==
    [ok |-> FALSE, returned |-> FALSE, fresh |-> FALSE, bm25 |-> BM25Empty,
     vector |-> VectorEmpty]

NoObs == [none |-> TRUE]

\* bm25.py:29-35  a BM25Retriever as constructed with no arguments: k1 and b
\* of the settings, no chunks, no BM25Okapi object (okapi: the k1 and b the
\* object in mem.index was built with)
NoOkapi == [none |-> TRUE]

NewRetriever == [k1 |-> "1.5", b |-> "0.75", mem |-> BM25Empty, okapi |-> NoOkapi]

Instances == {"built", "fresh"}

\* no task of the process is inside a stretch that does not yield
LoopFree == bld.pc \in {"idle", "fetch"}

TypeOK ==
    /\ max_size \in 1..MaxCap
    /\ now \in 0..MaxTime
    /\ Range(cache_order) \subseteq AllKeys \cup SvcKeys
    /\ DOMAIN cache_entry = Range(cache_order)

Init ==
    /\ max_size \in 1..MaxCap
    /\ ttl_seconds = Ttl
    /\ cache_order = <<>>
    /\ cache_entry = <<>>
    /\ c_hits = 0
    /\ c_misses = 0
    /\ now = 0
    /\ last = NoCall
    /\ stored = StoredInit
    /\ hist = HistInit
    /\ lookups = <<>>
    /\ th = [t \in Threads |-> IdleThread]
    /\ gets_done = [returned |-> 0, raised |-> 0, set_raised |-> FALSE]
    /\ db = 0
    /\ bm25 = BM25Empty
    /\ vector = VectorEmpty
    /\ dirs = [v \in Versions |-> NoDir]
    /\ current = NoLink
    /\ bld = IdleBuild
    /\ srch = IdleSearch
    /\ resp = NoResp
    /\ answered = AnsweredInit
    /\ loaded = NotLoaded
    /\ obs = NoObs
    /\ heap = <<>>
    /\ inst = [i \in Instances |-> NewRetriever]
    /\ saved = NoFile

\* cache.get(query, filters, top_k)
DoGet(req) ==
    /\ c_hits + c_misses < MaxGets
    /\ LET k == KeyOf(req)
           r == CacheGet(Dict, k, now, ttl_seconds)
       IN  /\ cache_order' = r.dict.order
           /\ cache_entry' = r.dict.entry
           /\ c_hits' = c_hits + r.hit
           /\ c_misses' = c_misses + r.miss
           /\ last' = [op |-> "get", key |-> k, found |-> r.found,
                       results |-> r.results, set |-> stored[k], at |-> now]
    /\ UNCHANGED <<max_size, ttl_seconds, now>>

\* cache.set(query, results, filters, top_k)
DoSet(req, results) ==
    /\ LET k == KeyOf(req)
           c == CacheSet(Dict, max_size, k, results, now)
       IN  /\ cache_order' = c.order
           /\ cache_entry' = c.entry
           /\ last' = [op |-> "set", key |-> k,
                       overflow |-> k \notin Range(cache_order) /\ size >= max_size,
                       before |-> Range(cache_order),
                       hitBefore |-> hist.hit, staleBefore |-> hist.stale]
    /\ UNCHANGED <<max_size, ttl_seconds, c_hits, c_misses, now>>

\* cache.invalidate()
DoInvalidate ==
    /\ cache_order # <<>>
    /\ cache_order' = <<>>
    /\ cache_entry' = <<>>
    /\ last' = [op |-> "invalidate"]
    /\ UNCHANGED <<max_size, ttl_seconds, c_hits, c_misses, now>>

\* the entries a step removed from the cache
Gone == Range(cache_order) \ Range(cache_order')

(***************************************************************************)
(* Runs of one cache with the clock: get, set, invalidate, time passing.   *)
(***************************************************************************)
Get(req) ==
    /\ DoGet(req)
    /\ stored' = StoredDrop(stored, Gone)
    /\ UNCHANGED <<hist, keyVars, thrVars, svcVars, auxVars>>

Set(req, results) ==
    /\ DoSet(req, results)
    /\ stored' = [StoredDrop(stored, Gone) EXCEPT ![KeyOf(req)] =
                    [none |-> FALSE, results |-> results, at |-> now]]
    /\ UNCHANGED <<hist, keyVars, thrVars, svcVars, auxVars>>

Invalidate ==
    /\ DoInvalidate
    /\ stored' = StoredInit
    /\ UNCHANGED <<hist, keyVars, thrVars, svcVars, auxVars>>

\* time passes (a stretch that does not yield is short: the clock and the
\* metadata store move before it or after it)
Tick ==
    /\ LoopFree
    /\ now < MaxTime
    /\ now' = now + 1
    /\ UNCHANGED <<max_size, ttl_seconds, cache_order, cache_entry, c_hits, c_misses,
                   last, stored, hist, keyVars, thrVars, svcVars, auxVars>>

Next ==
    \/ \E req \in CacheReqs : Get(req)
    \/ \E req \in CacheReqs, results \in ResultLists : Set(req, results)
    \/ Invalidate
    \/ Tick

Spec == Init /\ [][Next]_vars

(***************************************************************************)
(* The LRU runs: max_size + 1 keys, one result list, the use history kept. *)
(***************************************************************************)
LruGet(req) ==
    /\ DoGet(req)
    /\ hist' = HistAfterGet(hist, Dict, KeyOf(req),
                            CacheGet(Dict, KeyOf(req), now, ttl_seconds))
    /\ UNCHANGED <<stored, keyVars, thrVars, svcVars, auxVars>>

LruSet(req) ==
    /\ hist.nSets <= max_size
    /\ DoSet(req, <<"c1">>)
    /\ hist' = HistAfterSet(hist, Dict,
                            CacheSet(Dict, max_size, KeyOf(req), <<"c1">>, now),
                            KeyOf(req))
    /\ UNCHANGED <<stored, keyVars, thrVars, svcVars, auxVars>>

LruInvalidate ==
    /\ DoInvalidate
    /\ hist' = HistDrop(hist, Range(cache_order))
    /\ UNCHANGED <<stored, keyVars, thrVars, svcVars, auxVars>>

\* time passes beyond the TTL of every entry stored so far
LruExpire ==
    /\ now + ttl_seconds + 1 <= MaxTime
    /\ now' = now + ttl_seconds + 1
    /\ UNCHANGED <<max_size, ttl_seconds, cache_order, cache_entry, c_hits, c_misses,
                   last, stored, hist, keyVars, thrVars, svcVars, auxVars>>

NextLRU ==
    \/ \E req \in LruReqs : LruGet(req)
    \/ \E req \in LruReqs : LruSet(req)
    \/ LruInvalidate
    \/ LruExpire

SpecLRU == Init /\ [][NextLRU]_vars


(***************************************************************************)
(* The key runs: two lookups drawn from bounded queries, filters and       *)
(* top_k, each keyed by _make_key.                                         *)
(***************************************************************************)
KeyQueries == UNION {[1..n -> Chars] : n \in 1..MaxQueryLen}

\* the lists of distinct elements of S of length at most MaxListLen
ListsOver(S) ==
    {l \in UNION {[1..n -> S] : n \in 0..MaxListLen} :
        \A i, j \in 1..Len(l) : i # j => l[i] # l[j]}

NoneItem(k) == [key |-> k, none |-> TRUE, list |-> <<>>]

ListItem(k, l) == [key |-> k, none |-> FALSE, list |-> l]

\* the values routes/search.py passes: None or the list of the request
SourceTypeItems ==
    {NoneItem("source_types")}
    \cup {ListItem("source_types", l) : l \in ListsOver({"docs", "issues"})}

ProjectItems == {NoneItem("projects")}

KeyDicts ==
    {<<>>}
    \cup {<<x>> : x \in SourceTypeItems \cup ProjectItems}
    \cup {<<x, y>> : x \in SourceTypeItems, y \in ProjectItems}
    \cup {<<y, x>> : x \in SourceTypeItems, y \in ProjectItems}

KeyFilters == {NoFilters} \cup {[none |-> FALSE, items |-> d] : d \in KeyDicts}

KeyReqs == [query : KeyQueries, filters : KeyFilters, top_k : 1..MaxTopK]

\* one lookup: the key _make_key gives the request
Lookup(req) ==
    /\ Len(lookups) < 2
    /\ lookups' = Append(lookups, [req |-> req, key |-> KeyOf(req)])
    /\ UNCHANGED <<cacheVars, last, stored, hist, thrVars, svcVars, auxVars>>

NextKey == \E req \in KeyReqs : Lookup(req)

SpecKey == Init /\ [][NextKey]_vars

(***************************************************************************)
(* Threads calling one QueryCache.  The class takes no lock, so a call is  *)
(* the sequence of its reads and writes of the shared dict and counters,   *)
(* and the calls of different threads interleave between them.             *)
(***************************************************************************)
ThreadStep(t, rec) == th' = [th EXCEPT ![t] = rec]

Returned == [gets_done EXCEPT !.returned = @ + 1]

Raised == [gets_done EXCEPT !.raised = @ + 1]

thrFrame ==
    <<max_size, ttl_seconds, now, last, stored, hist, keyVars, svcVars, auxVars>>

\* a thread enters cache.get(query, filters, top_k)
T_GetCall(t, req) ==
    /\ th[t].pc = "idle"
    /\ gets_done.returned + gets_done.raised
         + Cardinality({u \in Threads : th[u].pc \in
              {"get_test", "get_entry", "get_ttl", "miss_read", "miss_write",
               "hit_read", "hit_write"}}) < MaxGets
    /\ ThreadStep(t, [pc |-> "get_test", key |-> KeyOf(req)])
    /\ UNCHANGED <<cache_order, cache_entry, c_hits, c_misses, gets_done, thrFrame>>

\* cache.py:76  if key not in self._cache
T_GetTest(t) ==
    /\ th[t].pc = "get_test"
    /\ ThreadStep(t, [th[t] EXCEPT !.pc = IF th[t].key \in Range(cache_order)
                                          THEN "get_entry" ELSE "miss_read"])
    /\ UNCHANGED <<cache_order, cache_entry, c_hits, c_misses, gets_done, thrFrame>>

\* cache.py:80  entry = self._cache[key]  (KeyError when the key has gone)
T_GetEntry(t) ==
    /\ th[t].pc = "get_entry"
    /\ IF th[t].key \in Range(cache_order)
       THEN /\ ThreadStep(t, [pc |-> "get_ttl", key |-> th[t].key,
                              entry |-> cache_entry[th[t].key]])
            /\ UNCHANGED gets_done
       ELSE /\ ThreadStep(t, IdleThread)
            /\ gets_done' = Raised
    /\ UNCHANGED <<cache_order, cache_entry, c_hits, c_misses, thrFrame>>

\* cache.py:83-90  the TTL test, then del self._cache[key] or move_to_end(key)
\* and entry.hits += 1  (either raises KeyError when the key has gone)
T_GetTtl(t) ==
    /\ th[t].pc = "get_ttl"
    /\ LET k == th[t].key IN
       IF k \notin Range(cache_order)
       THEN /\ ThreadStep(t, IdleThread)
            /\ gets_done' = Raised
            /\ UNCHANGED <<cache_order, cache_entry>>
       ELSE IF Expired(th[t].entry, now, ttl_seconds)
       THEN /\ cache_order' = DictDel(Dict, k).order
            /\ cache_entry' = DictDel(Dict, k).entry
            /\ ThreadStep(t, [pc |-> "miss_read", key |-> k])
            /\ UNCHANGED gets_done
       ELSE /\ cache_order' = MoveToEnd(cache_order, k)
            /\ cache_entry' = [cache_entry EXCEPT ![k].hits = @ + 1]
            /\ ThreadStep(t, [pc |-> "hit_read", key |-> k,
                              results |-> th[t].entry.results])
            /\ UNCHANGED gets_done
    /\ UNCHANGED <<c_hits, c_misses, thrFrame>>

\* cache.py:77,85  self._misses += 1: the load of the counter
T_MissRead(t) ==
    /\ th[t].pc = "miss_read"
    /\ ThreadStep(t, [pc |-> "miss_write", key |-> th[t].key, tmp |-> c_misses])
    /\ UNCHANGED <<cache_order, cache_entry, c_hits, c_misses, gets_done, thrFrame>>

\* cache.py:77-78,85-86  self._misses += 1: the store, then return None
T_MissWrite(t) ==
    /\ th[t].pc = "miss_write"
    /\ c_misses' = th[t].tmp + 1
    /\ ThreadStep(t, IdleThread)
    /\ gets_done' = Returned
    /\ UNCHANGED <<cache_order, cache_entry, c_hits, thrFrame>>

\* cache.py:91  self._hits += 1: the load of the counter
T_HitRead(t) ==
    /\ th[t].pc = "hit_read"
    /\ ThreadStep(t, [pc |-> "hit_write", key |-> th[t].key,
                      results |-> th[t].results, tmp |-> c_hits])
    /\ UNCHANGED <<cache_order, cache_entry, c_hits, c_misses, gets_done, thrFrame>>

\* cache.py:91-93  self._hits += 1: the store, then return entry.results
T_HitWrite(t) ==
    /\ th[t].pc = "hit_write"
    /\ c_hits' = th[t].tmp + 1
    /\ ThreadStep(t, IdleThread)
    /\ gets_done' = Returned
    /\ UNCHANGED <<cache_order, cache_entry, c_misses, thrFrame>>

\* a thread enters cache.set(query, results, filters, top_k)
T_SetCall(t, req, results) ==
    /\ th[t].pc = "idle"
    /\ ThreadStep(t, [pc |-> "set_check", key |-> KeyOf(req), results |-> results])
    /\ UNCHANGED <<cache_order, cache_entry, c_hits, c_misses, gets_done, thrFrame>>

\* cache.py:114  while len(self._cache) >= self.max_size
T_SetCheck(t) ==
    /\ th[t].pc = "set_check"
    /\ ThreadStep(t, [th[t] EXCEPT !.pc = IF Len(cache_order) >= max_size
                                          THEN "set_pop" ELSE "set_store"])
    /\ UNCHANGED <<cache_order, cache_entry, c_hits, c_misses, gets_done, thrFrame>>

\* cache.py:115  self._cache.popitem(last=False)  (KeyError on an empty dict)
T_SetPop(t) ==
    /\ th[t].pc = "set_pop"
    /\ IF cache_order = <<>>
       THEN /\ ThreadStep(t, IdleThread)
            /\ gets_done' = [gets_done EXCEPT !.set_raised = TRUE]
            /\ UNCHANGED <<cache_order, cache_entry>>
       ELSE /\ cache_order' = DictDel(Dict, Head(cache_order)).order
            /\ cache_entry' = DictDel(Dict, Head(cache_order)).entry
            /\ ThreadStep(t, [th[t] EXCEPT !.pc = "set_check"])
            /\ UNCHANGED gets_done
    /\ UNCHANGED <<c_hits, c_misses, thrFrame>>

\* cache.py:117-120  self._cache[key] = CacheEntry(...)
T_SetStore(t) ==
    /\ th[t].pc = "set_store"
    /\ cache_order' = DictStore(Dict, th[t].key, th[t].results, now).order
    /\ cache_entry' = DictStore(Dict, th[t].key, th[t].results, now).entry
    /\ ThreadStep(t, IdleThread)
    /\ UNCHANGED <<c_hits, c_misses, gets_done, thrFrame>>

\* cache.py:124  self._cache.clear()
T_Invalidate(t) ==
    /\ th[t].pc = "idle"
    /\ cache_order # <<>>
    /\ cache_order' = <<>>
    /\ cache_entry' = <<>>
    /\ UNCHANGED <<c_hits, c_misses, thrVars, thrFrame>>

NextThreads ==
    \/ \E t \in Threads, req \in CacheReqs : T_GetCall(t, req)
    \/ \E t \in Threads : T_GetTest(t)
    \/ \E t \in Threads : T_GetEntry(t)
    \/ \E t \in Threads : T_GetTtl(t)
    \/ \E t \in Threads : T_MissRead(t)
    \/ \E t \in Threads : T_MissWrite(t)
    \/ \E t \in Threads : T_HitRead(t)
    \/ \E t \in Threads : T_HitWrite(t)
    \/ \E t \in Threads, req \in CacheReqs : T_SetCall(t, req, <<"c1">>)
    \/ \E t \in Threads : T_SetCheck(t)
    \/ \E t \in Threads : T_SetPop(t)
    \/ \E t \in Threads : T_SetStore(t)
    \/ \E t \in Threads : T_Invalidate(t)
    \/ Tick

SpecThreads == Init /\ [][NextThreads]_vars

(***************************************************************************)
(* One process serving searches while indexes are built and loaded.  The   *)
(* tasks share one event loop: a search yields once, at the metadata       *)
(* store; build_indexes yields once, reading the chunks, and from there    *)
(* runs to its end without yielding.  The steps of that last stretch are   *)
(* separate actions because the file system and the clock are seen from    *)
(* outside the process.                                                    *)
(***************************************************************************)
svcFrame == <<max_size, ttl_seconds, last, stored, hist, keyVars, thrVars, auxVars>>

\* the ingestion pipeline replaces the chunks of the metadata store
Ingest(i) ==
    /\ LoopFree
    /\ i > db
    /\ db' = i
    /\ UNCHANGED <<cacheVars, svcFrame, bm25, vector, dirs, current, bld, srch,
                   resp, answered, loaded, obs>>

\* bm25.py:37-57  BM25Retriever.build_index(chunks)
bm25_build_index(r, chunks) ==
    [chunk_ids |-> chunks, corpus |-> chunks,
     index |-> IF TokenizedCorpus(chunks) # <<>> THEN chunks ELSE r.index]

\* bm25.py:130-150  BM25Retriever.load of a file [chunk_ids, corpus]
bm25_load(r, file) ==
    [chunk_ids |-> file.chunk_ids, corpus |-> file.corpus,
     index |-> IF TokenizedCorpus(file.corpus) # <<>> THEN file.corpus ELSE r.index]

\* vector.py:44-69  VectorRetriever.build_index(chunks)
vector_build_index(r, chunks) ==
    IF ChunksOf(chunks) = <<>> THEN r
    ELSE [index |-> chunks, chunk_ids |-> chunks, dim |-> ModelDim]

\* manager.py:58-60  the version is named after the second; mkdir(exist_ok)
BuildStart(include_vectors) ==
    /\ bld.pc = "idle"
    /\ bld.n < MaxBuilds
    /\ bld' = [pc |-> "fetch", n |-> bld.n + 1, version |-> now,
               include_vectors |-> include_vectors, prior |-> current]
    /\ dirs' = [dirs EXCEPT ![now].exists = TRUE]
    /\ UNCHANGED <<cacheVars, svcFrame, db, bm25, vector, current, srch, resp,
                   answered, loaded, obs>>

\* a plausible slip: the build goes on with no chunks
NoChunks_Never(chunks) == FALSE

\* manager.py:69  if not chunks
NoChunks(chunks) == ChunksOf(chunks) = <<>>

\* manager.py:62-71  the chunks are read; with none the call returns
BuildFetch ==
    /\ bld.pc = "fetch"
    /\ bld' = IF NoChunks(db) THEN [pc |-> "idle", n |-> bld.n]
              ELSE [pc |-> "bm25", n |-> bld.n, version |-> bld.version,
                    include_vectors |-> bld.include_vectors, prior |-> bld.prior,
                    chunks |-> db]
    /\ UNCHANGED <<cacheVars, svcFrame, db, bm25, vector, dirs, current, srch,
                   resp, answered, loaded, obs>>

\* manager.py:75-77  self.bm25.build_index(chunks); self.bm25.save(...)
BuildBm25 ==
    /\ bld.pc = "bm25"
    /\ bm25' = bm25_build_index(bm25, bld.chunks)
    /\ dirs' = [dirs EXCEPT ![bld.version].bm25 =
                  [none |-> FALSE, chunk_ids |-> bm25'.chunk_ids, corpus |-> bm25'.corpus]]
    /\ bld' = [bld EXCEPT !.pc = IF bld.include_vectors THEN "vector" ELSE "activate"]
    /\ loaded' = [loaded EXCEPT !.fresh = FALSE]
    /\ UNCHANGED <<cacheVars, svcFrame, db, vector, current, srch, resp, answered, obs>>

\* manager.py:80-86  self.vector.build_index(chunks); self.vector.save(...)
BuildVector ==
    /\ bld.pc = "vector"
    /\ vector' = vector_build_index(vector, bld.chunks)
    /\ dirs' = [dirs EXCEPT ![bld.version].faiss =
                              [none |-> FALSE, corpus |-> vector'.index, dim |-> vector'.dim,
                               readable |-> TRUE],
                            ![bld.version].idmap = [none |-> FALSE, corpus |-> vector'.chunk_ids]]
    /\ bld' = [bld EXCEPT !.pc = "activate"]
    /\ UNCHANGED <<cacheVars, svcFrame, db, bm25, current, srch, resp, answered,
                   loaded, obs>>

\* manager.py:75-86  build_index or save raises (tokenizing, encoding, opening
\* the file): build_indexes ends there; built tells whether the retriever in
\* memory had been rebuilt before the exception
BuildFail(built) ==
    /\ bld.pc \in {"bm25", "vector"}
    /\ bm25' = IF built /\ bld.pc = "bm25" THEN bm25_build_index(bm25, bld.chunks)
               ELSE bm25
    /\ vector' = IF built /\ bld.pc = "vector" THEN vector_build_index(vector, bld.chunks)
                 ELSE vector
    /\ loaded' = [loaded EXCEPT !.fresh = @ /\ ~(built /\ bld.pc = "bm25")]
    /\ bld' = [pc |-> "idle", n |-> bld.n]
    /\ UNCHANGED <<cacheVars, svcFrame, db, dirs, current, srch, resp, answered, obs>>

\* manager.py:170-171  current_link.unlink() when the link is there
ActivateUnlink ==
    /\ bld.pc = "activate"
    /\ ~current.none
    /\ current' = NoLink
    /\ UNCHANGED <<cacheVars, svcFrame, db, bm25, vector, dirs, bld, srch, resp,
                   answered, loaded, obs>>

\* manager.py:174  current_link.symlink_to(version_dir); build_indexes returns
ActivateSymlink ==
    /\ bld.pc = "activate"
    /\ current.none
    /\ current' = Link(bld.version)
    /\ bld' = [pc |-> "idle", n |-> bld.n]
    /\ UNCHANGED <<cacheVars, svcFrame, db, bm25, vector, dirs, srch, resp,
                   answered, loaded, obs>>

\* manager.py:178-183  _get_current_dir() called from another process while a
\* build runs: what it resolves, and what the build was doing at that instant
Observe ==
    /\ bld.pc # "idle"
    /\ obs' = [none |-> FALSE, current |-> current, prior |-> bld.prior,
               version |-> bld.version,
               writing |-> ~current.none /\ current.version = bld.version
                           /\ bld.pc = "vector"]
    /\ obs' # obs
    /\ UNCHANGED <<cacheVars, svcFrame, db, bm25, vector, dirs, current, bld, srch,
                   resp, answered, loaded>>

\* manager.py:94-124  load_indexes
LoadIndexes ==
    /\ LoopFree
    /\ IF current.none
       THEN /\ loaded' = [loaded EXCEPT !.returned = FALSE]
            /\ UNCHANGED <<bm25, vector>>
       ELSE LET d == dirs[current.version]
                \* vector.py:176  faiss.read_index raises on a file it cannot read
                raises == IF d.faiss.none \/ d.idmap.none THEN FALSE ELSE ~d.faiss.readable
            IN  /\ bm25' = IF d.bm25.none THEN bm25 ELSE bm25_load(bm25, d.bm25)
                /\ vector' = IF d.faiss.none \/ d.idmap.none \/ raises THEN vector
                             ELSE [index |-> d.faiss.corpus, chunk_ids |-> d.idmap.corpus,
                                   dim |-> d.faiss.dim]
                /\ loaded' = IF raises
                             THEN [loaded EXCEPT !.returned = FALSE, !.bm25 = bm25',
                                                 !.vector = vector']
                             ELSE [ok |-> TRUE, returned |-> TRUE, fresh |-> TRUE,
                                   bm25 |-> bm25', vector |-> vector']
    /\ UNCHANGED <<cacheVars, svcFrame, db, dirs, current, bld, srch, resp, answered, obs>>

\* service.py:60-78  cache.get; a cached list that is truthy is the response.
\* service.py:80-86  otherwise retrieval runs, and the search waits for the
\* metadata store
SearchStart(req, raises) ==
    /\ LoopFree
    /\ srch.pc = "idle"
    /\ c_hits + c_misses < MaxGets
    /\ LET k == KeyOf(req)
           g == CacheGet(Dict, k, now, ttl_seconds)
           r == retrieve_with_fallback(bm25, vector, req.query, req.top_k, raises)
       IN  /\ cache_order' = g.dict.order
           /\ cache_entry' = g.dict.entry
           /\ c_hits' = c_hits + g.hit
           /\ c_misses' = c_misses + g.miss
           /\ answered' = AnsweredDrop(answered, Gone)
           /\ IF g.found /\ g.results # <<>>
              THEN /\ resp' = [none |-> FALSE, req |-> req, results |-> g.results,
                               cache_hit |-> TRUE, retrieval_mode |-> "hybrid"]
                   /\ srch' = srch
              ELSE /\ srch' = [pc |-> "enrich", req |-> req, results |-> r.results,
                               mode |-> r.mode,
                               raised |-> vector_is_ready(vector) /\ dense_raises(vector, raises),
                               loaded |-> loaded]
                   /\ resp' = resp
    /\ UNCHANGED <<max_size, ttl_seconds, now, svcFrame, db, bm25, vector, dirs,
                   current, bld, loaded, obs>>

\* service.py:89-126  enrichment, filters, cache.set, the response
SearchFinish ==
    /\ LoopFree
    /\ srch.pc = "enrich"
    /\ LET k == KeyOf(srch.req)
           e == Enriched(srch.results, srch.req, db)
           c == CacheSet(Dict, max_size, k, e, now)
       IN  /\ cache_order' = c.order
           /\ cache_entry' = c.entry
           /\ answered' = [AnsweredDrop(answered, Gone) EXCEPT ![k] =
                             [none |-> FALSE, results |-> Take(e, srch.req.top_k),
                              at |-> now]]
           /\ resp' = [none |-> FALSE, req |-> srch.req,
                       results |-> Take(e, srch.req.top_k),
                       cache_hit |-> FALSE, retrieval_mode |-> srch.mode]
    /\ srch' = IdleSearch
    /\ UNCHANGED <<max_size, ttl_seconds, c_hits, c_misses, now, svcFrame, db, bm25,
                   vector, dirs, current, bld, loaded, obs>>

\* cache.invalidate() between searches
SvcInvalidate ==
    /\ cache_order # <<>>
    /\ cache_order' = <<>>
    /\ cache_entry' = <<>>
    /\ answered' = AnsweredInit
    /\ UNCHANGED <<max_size, ttl_seconds, c_hits, c_misses, now, svcFrame, db, bm25,
                   vector, dirs, current, bld, srch, resp, loaded, obs>>

NextSvc ==
    \/ \E req \in SvcReqs, raises \in BOOLEAN : SearchStart(req, raises)
    \/ SearchFinish
    \/ SvcInvalidate
    \/ \E i \in CorpusIds : Ingest(i)
    \/ \E include_vectors \in BOOLEAN : BuildStart(include_vectors)
    \/ BuildFetch
    \/ BuildBm25
    \/ BuildVector
    \/ ActivateUnlink
    \/ ActivateSymlink
    \/ LoadIndexes
    \/ Tick

SpecSvc == Init /\ [][NextSvc]_vars

\* builds seen from another process
NextAct ==
    \/ \E i \in CorpusIds : Ingest(i)
    \/ \E include_vectors \in BOOLEAN : BuildStart(include_vectors)
    \/ BuildFetch
    \/ BuildBm25
    \/ BuildVector
    \/ \E built \in BOOLEAN : BuildFail(built)
    \/ ActivateUnlink
    \/ ActivateSymlink
    \/ Observe
    \/ Tick

SpecAct == Init /\ [][NextAct]_vars

(***************************************************************************)
(* A server started on downloaded indexes: ensure_indexes_present unpacks  *)
(* an archive into index_dir, load_indexes loads it, searches follow.  A   *)
(* search waiting for the metadata store may be aborted there.             *)
(***************************************************************************)
Bm25File(c) == [none |-> FALSE, chunk_ids |-> c, corpus |-> c]

FaissFile(c, d) == [none |-> FALSE, corpus |-> c, dim |-> d, readable |-> TRUE]

IdMapFile(c) == [none |-> FALSE, corpus |-> c]

\* the archives behind INDEXES_URL: the files of one version, built from the
\* first corpus, with or without the dense index, the dense index alone, and
\* one whose dense index was made by a model of another dimension
Zips ==
    {[bm25 |-> Bm25File(1), faiss |-> NoFile, idmap |-> NoFile],
     [bm25 |-> Bm25File(1), faiss |-> FaissFile(1, ModelDim), idmap |-> IdMapFile(1)],
     [bm25 |-> Bm25File(1), faiss |-> FaissFile(1, OtherDim), idmap |-> IdMapFile(1)],
     [bm25 |-> NoFile, faiss |-> FaissFile(1, ModelDim), idmap |-> IdMapFile(1)]}

\* z.extractall(index_dir): the files of the archive replace those of the
\* same name
Extract(dir, zip) ==
    [exists |-> TRUE,
     bm25 |-> IF zip.bm25.none THEN dir.bm25 ELSE zip.bm25,
     faiss |-> IF zip.faiss.none THEN dir.faiss ELSE zip.faiss,
     idmap |-> IF zip.idmap.none THEN dir.idmap ELSE zip.idmap]

\* manager.py:126-162  ensure_indexes_present: nothing to do with an active
\* BM25 index; otherwise the archive is unpacked and current resolves to its
\* version directory
EnsureIndexes(zip) ==
    /\ LoopFree
    /\ IF current.none THEN TRUE ELSE dirs[current.version].bm25.none
    /\ dirs' = [dirs EXCEPT ![0] = Extract(@, zip)]
    /\ current' = Link(0)
    /\ UNCHANGED <<cacheVars, svcFrame, db, bm25, vector, bld, srch, resp, answered,
                   loaded, obs>>

\* a plausible slip: the ranking is cached before the fetch is awaited, so the
\* aborted call leaves an entry
SearchAbort_Caches ==
    /\ LoopFree
    /\ srch.pc = "enrich"
    /\ LET c == CacheSet(Dict, max_size, KeyOf(srch.req), <<>>, now)
       IN  /\ cache_order' = c.order
           /\ cache_entry' = c.entry
    /\ srch' = IdleSearch
    /\ UNCHANGED <<max_size, ttl_seconds, c_hits, c_misses, now, svcFrame, db, bm25,
                   vector, dirs, current, bld, resp, answered, loaded, obs>>

\* service.py:127-128  the fetch from the metadata store raises, or the task
\* is cancelled while it waits: the call ends before cache.set
SearchAbort ==
    /\ LoopFree
    /\ srch.pc = "enrich"
    /\ srch' = IdleSearch
    /\ UNCHANGED <<cacheVars, svcFrame, db, bm25, vector, dirs, current, bld, resp,
                   answered, loaded, obs>>

NextQuery ==
    \/ \E zip \in Zips : EnsureIndexes(zip)
    \/ LoadIndexes
    \/ \E req \in SvcReqs, raises \in BOOLEAN : SearchStart(req, raises)
    \/ SearchFinish
    \/ SearchAbort
    \/ SvcInvalidate
    \/ \E i \in CorpusIds : Ingest(i)
    \/ Tick

SpecQuery == Init /\ [][NextQuery]_vars

\* the same server, the archive possibly holding a dense index file that
\* faiss cannot read
UnreadableFaissFile == [none |-> FALSE, corpus |-> 0, dim |-> ModelDim, readable |-> FALSE]

BrokenZips ==
    {[bm25 |-> Bm25File(1), faiss |-> UnreadableFaissFile, idmap |-> IdMapFile(1)],
     [bm25 |-> NoFile, faiss |-> UnreadableFaissFile, idmap |-> IdMapFile(1)]}

NextReload ==
    \/ \E zip \in Zips \cup BrokenZips : EnsureIndexes(zip)
    \/ LoadIndexes
    \/ \E req \in SvcReqs, raises \in BOOLEAN : SearchStart(req, raises)
    \/ SearchFinish
    \/ \E i \in CorpusIds : Ingest(i)
    \/ Tick

SpecReload == Init /\ [][NextReload]_vars

(***************************************************************************)
(* Threads sharing the BM25Retriever: each statement of load and of search *)
(* that touches an attribute of the retriever is a step of its thread.     *)
(***************************************************************************)
loadFrame ==
    <<cacheVars, stored, hist, keyVars, gets_done, db, vector, dirs, current, bld,
      srch, resp, answered, loaded, obs, auxVars>>

\* the bm25_index.json files a load may be given
Bm25Files == {[chunk_ids |-> c, corpus |-> c] : c \in 1..Len(Corpora)}

\* bm25.py:137-138  data = json.loads(path.read_text())
L_Read(t, file) ==
    /\ th[t].pc = "idle"
    /\ file.corpus # bm25.corpus
    /\ ThreadStep(t, [pc |-> "load_ids", data |-> file])
    /\ UNCHANGED <<bm25, last, loadFrame>>

\* bm25.py:142  self._chunk_ids = data["chunk_ids"]
L_ChunkIds(t) ==
    /\ th[t].pc = "load_ids"
    /\ bm25' = [bm25 EXCEPT !.chunk_ids = th[t].data.chunk_ids]
    /\ ThreadStep(t, [th[t] EXCEPT !.pc = "load_corpus"])
    /\ UNCHANGED <<last, loadFrame>>

\* bm25.py:143  self._tokenized_corpus = data["corpus"]
L_Corpus(t) ==
    /\ th[t].pc = "load_corpus"
    /\ bm25' = [bm25 EXCEPT !.corpus = th[t].data.corpus]
    /\ ThreadStep(t, [th[t] EXCEPT !.pc = "load_index"])
    /\ UNCHANGED <<last, loadFrame>>

\* bm25.py:145-150  if self._tokenized_corpus: self._index = BM25Okapi(...)
L_Index(t) ==
    /\ th[t].pc = "load_index"
    /\ bm25' = [bm25 EXCEPT !.index = IF TokenizedCorpus(bm25.corpus) # <<>>
                                      THEN bm25.corpus ELSE @]
    /\ ThreadStep(t, IdleThread)
    /\ UNCHANGED <<last, loadFrame>>

\* bm25.py:70-71  if not self._index or not self._chunk_ids: return []
S_Check(t, req) ==
    /\ th[t].pc = "idle"
    /\ IF bm25.index = 0 \/ ChunkIds(bm25.chunk_ids) = <<>>
       THEN /\ last' = [op |-> "bm25_search", index |-> 0, chunk_ids |-> 0,
                        results |-> <<>>]
            /\ UNCHANGED th
       ELSE /\ ThreadStep(t, [pc |-> "search_scores", req |-> req])
            /\ UNCHANGED last
    /\ last' # last \/ th' # th
    /\ UNCHANGED <<bm25, loadFrame>>

\* bm25.py:79  scores = self._index.get_scores(query_tokens)
S_Scores(t) ==
    /\ th[t].pc = "search_scores"
    /\ ThreadStep(t, [pc |-> "search_zip", req |-> th[t].req, index |-> bm25.index])
    /\ UNCHANGED <<bm25, last, loadFrame>>

\* bm25.py:82-88  zip(self._chunk_ids, scores), sort, cut, return
S_Zip(t) ==
    /\ th[t].pc = "search_zip"
    /\ last' = [op |-> "bm25_search", index |-> th[t].index,
                chunk_ids |-> bm25.chunk_ids,
                results |-> bm25_search_on(th[t].index, bm25.chunk_ids,
                                           th[t].req.query, th[t].req.top_k)]
    /\ ThreadStep(t, IdleThread)
    /\ UNCHANGED <<bm25, loadFrame>>

NextLoad ==
    \/ \E t \in Threads, file \in Bm25Files : L_Read(t, file)
    \/ \E t \in Threads : L_ChunkIds(t)
    \/ \E t \in Threads : L_Corpus(t)
    \/ \E t \in Threads : L_Index(t)
    \/ \E t \in Threads, req \in SvcReqs : S_Check(t, req)
    \/ \E t \in Threads : S_Scores(t)
    \/ \E t \in Threads : S_Zip(t)

SpecLoad == Init /\ [][NextLoad]_vars

(***************************************************************************)
(* The cache and the list objects of its callers.  A list is an object of  *)
(* the heap; set stores the reference it is given and get returns the      *)
(* reference stored, so the entry and the caller share one object.         *)
(***************************************************************************)
aliasFrame == <<max_size, ttl_seconds, now, hist, keyVars, thrVars, svcVars, inst, saved>>

\* a caller makes a list and passes it to cache.set (cache.py:117-120 stores
\* results=results, the reference)
A_Set(req, contents) ==
    /\ Len(heap) <= MaxCap
    /\ heap' = Append(heap, contents)
    /\ LET k == KeyOf(req)
           c == CacheSet(Dict, max_size, k, Len(heap) + 1, now)
       IN  /\ cache_order' = c.order
           /\ cache_entry' = c.entry
           /\ stored' = [StoredDrop(stored, Gone) EXCEPT ![k] =
                           [none |-> FALSE, results |-> contents, at |-> now]]
    /\ last' = [op |-> "set"]
    /\ UNCHANGED <<c_hits, c_misses, aliasFrame>>

\* cache.get (cache.py:93 returns entry.results, the reference): value is the
\* list the caller reads through it on return
A_Get(req) ==
    /\ c_hits + c_misses < MaxGets
    /\ LET k == KeyOf(req)
           r == CacheGet(Dict, k, now, ttl_seconds)
       IN  /\ cache_order' = r.dict.order
           /\ cache_entry' = r.dict.entry
           /\ c_hits' = c_hits + r.hit
           /\ c_misses' = c_misses + r.miss
           /\ stored' = StoredDrop(stored, Gone)
           /\ last' = [op |-> "get", key |-> k, found |-> r.found,
                       value |-> IF r.found THEN heap[r.results] ELSE <<>>,
                       set |-> stored[k]]
    /\ UNCHANGED <<heap, aliasFrame>>

\* a caller mutates a list it passed to set or got from get: results.append,
\* results.clear
A_Mutate(ref) ==
    /\ ref \in 1..Len(heap)
    /\ heap' = [heap EXCEPT ![ref] = IF @ = <<>> THEN <<"c1">> ELSE <<>>]
    /\ last' = [op |-> "mutate"]
    /\ UNCHANGED <<cache_order, cache_entry, c_hits, c_misses, stored, aliasFrame>>

NextAlias ==
    \/ \E req \in CacheReqs, contents \in ResultLists : A_Set(req, contents)
    \/ \E req \in CacheReqs : A_Get(req)
    \/ \E ref \in 1..(MaxCap + 1) : A_Mutate(ref)

SpecAlias == Init /\ [][NextAlias]_vars

(***************************************************************************)
(* BM25Retriever objects used directly: constructed, built, saved, loaded  *)
(* and searched.  A retriever is [k1, b, mem, okapi]: mem holds _chunk_ids,*)
(* _tokenized_corpus and the corpus of the BM25Okapi object, okapi the     *)
(* parameters that object was made with.                                   *)
(***************************************************************************)
bm25Frame == <<cacheVars, stored, hist, keyVars, thrVars, svcVars, heap>>

\* the k1 a retriever is constructed with (b is left at its default)
K1s == {"1.5", "2.0"}

\* the chunk lists passed to build_index: the empty list and the corpora
BuildInputs == CorpusIds

\* bm25.py:21-35  BM25Retriever(k1)
retriever_new(k1) == [NewRetriever EXCEPT !.k1 = k1]

\* bm25.py:52-57, 145-150  BM25Okapi(corpus, k1=self.k1, b=self.b) when the
\* tokenized corpus is not empty
make_okapi(r, corpus, k1, b) ==
    IF TokenizedCorpus(corpus) # <<>> THEN [none |-> FALSE, k1 |-> k1, b |-> b]
    ELSE r.okapi

\* bm25.py:37-57  build_index(chunks) on the whole retriever
retriever_build(r, chunks) ==
    [r EXCEPT !.mem = bm25_build_index(r.mem, chunks),
              !.okapi = make_okapi(r, chunks, r.k1, r.b)]

\* bm25.py:111-128  the file written by save
retriever_file(r) ==
    [none |-> FALSE, k1 |-> r.k1, b |-> r.b,
     chunk_ids |-> r.mem.chunk_ids, corpus |-> r.mem.corpus]

\* a plausible slip: load keeps the k1 and b the retriever was constructed with
retriever_load_KeepsParams(r, file) ==
    [r EXCEPT !.mem = bm25_load(r.mem, file),
              !.okapi = make_okapi(r, file.corpus, r.k1, r.b)]

\* bm25.py:130-150  load(path)
retriever_load(r, file) ==
    [k1 |-> file.k1, b |-> file.b,
     mem |-> bm25_load(r.mem, file),
     okapi |-> make_okapi(r, file.corpus, file.k1, file.b)]

\* bm25.py:157-160  chunk_count
chunk_count(r) == Len(ChunkIds(r.mem.chunk_ids))

B_New(i, k1) ==
    /\ inst' = [inst EXCEPT ![i] = retriever_new(k1)]
    /\ inst' # inst
    /\ last' = [op |-> "bm25_new", inst |-> i]
    /\ UNCHANGED <<bm25Frame, saved>>

B_Build(i, chunks) ==
    /\ inst' = [inst EXCEPT ![i] = retriever_build(@, chunks)]
    /\ last' = [op |-> "bm25_build", inst |-> i, chunks |-> chunks]
    /\ UNCHANGED <<bm25Frame, saved>>

B_Save(i) ==
    /\ saved' = retriever_file(inst[i])
    /\ last' = [op |-> "bm25_save", inst |-> i]
    /\ UNCHANGED <<bm25Frame, inst>>

B_Load(i) ==
    /\ ~saved.none
    /\ inst' = [inst EXCEPT ![i] = retriever_load(@, saved)]
    /\ last' = [op |-> "bm25_load", inst |-> i]
    /\ UNCHANGED <<bm25Frame, saved>>

B_Search(i, query, top_k) ==
    /\ last' = [op |-> "bm25_search_call", inst |-> i, query |-> query, top_k |-> top_k,
                results |-> bm25_search(inst[i].mem, query, top_k)]
    /\ UNCHANGED <<bm25Frame, inst, saved>>

NextBm25 ==
    \/ \E i \in Instances, k1 \in K1s : B_New(i, k1)
    \/ \E i \in Instances, chunks \in BuildInputs : B_Build(i, chunks)
    \/ \E i \in Instances : B_Save(i)
    \/ \E i \in Instances : B_Load(i)
    \/ \E i \in Instances, query \in SvcQueries, top_k \in 1..MaxTopK :
          B_Search(i, query, top_k)

SpecBm25 == Init /\ [][NextBm25]_vars

(***************************************************************************)
(* HybridRetriever._reciprocal_rank_fusion called on the result lists of   *)
(* the two retrievers: every pair of lists of distinct chunk ids.          *)
(***************************************************************************)
rrfFrame == <<cacheVars, stored, hist, keyVars, thrVars, svcVars, auxVars>>

\* the chunk ids, in ascending order
RrfIds == <<"c1", "c2", "c3">>

\* a retriever's result list over the ids l: descending positive scores
RankedList(l) == [n \in 1..Len(l) |-> [chunk_id |-> l[n], score |-> Len(l) - n + 1]]

\* the result lists a retriever can return: distinct ids, best first
RankedLists ==
    {RankedList(l) :
       l \in {x \in UNION {[1..n -> Range(RrfIds)] : n \in 0..Len(RrfIds)} :
                \A i, j \in 1..Len(x) : i # j => x[i] # x[j]}}

\* hybrid.py:27-33  the weights a HybridRetriever is made with: none, the
\* default half, all
Weights == {Frac(0), bm25_weight, Frac(1)}

\* the fusion keeps no state between calls: one call per run
R_Fuse(wb, wv, bm25_results, vector_results, top_k) ==
    /\ last.op = "none"
    /\ last' = [op |-> "rrf", bm25_weight |-> wb, vector_weight |-> wv,
                bm25_results |-> bm25_results,
                vector_results |-> vector_results, top_k |-> top_k,
                results |-> rrf_fuse(wb, wv, bm25_results, vector_results, top_k)]
    /\ UNCHANGED rrfFrame

NextRrf ==
    \E wb \in Weights, wv \in Weights,
       bm25_results \in RankedLists, vector_results \in RankedLists,
       top_k \in 1..(MaxTopK + 1) :
          R_Fuse(wb, wv, bm25_results, vector_results, top_k)

SpecRrf == Init /\ [][NextRrf]_vars

(***************************************************************************)
(* BM25Retriever.search from the score vector on: the scores that          *)
(* BM25Okapi.get_scores returns for the documents, any of them.            *)
(***************************************************************************)
\* the scores a document can have: negative, zero, positive, twice equal
ScoreValues == (0 - 1)..2

ScoreVectors == UNION {[1..n -> ScoreValues] : n \in 1..Len(RrfIds)}

\* the ranking keeps no state between calls: one call per run
K_Rank(scores, top_k) ==
    /\ last.op = "none"
    /\ last' = [op |-> "bm25_rank", chunk_ids |-> Take(RrfIds, Len(scores)),
                scores |-> scores, top_k |-> top_k,
                results |-> top_scored(Take(RrfIds, Len(scores)), scores, top_k)]
    /\ UNCHANGED rrfFrame

NextRank == \E scores \in ScoreVectors, top_k \in 1..(MaxTopK + 1) : K_Rank(scores, top_k)

SpecRank == Init /\ [][NextRank]_vars

(***************************************************************************)
(* One pass of a ranked list through enrichment, filters and truncation,   *)
(* for every ranked list the retriever can return for top_k, every store   *)
(* and every filter on one key.                                            *)
(***************************************************************************)
EnrichFilters ==
    {NoFilters}
    \cup {[none |-> FALSE, items |-> <<ListItem("source_types", <<t>>)>>] :
             t \in {"docs", "issues"}}
    \cup {[none |-> FALSE, items |-> <<ListItem("projects", <<p>>)>>] :
             p \in {"k8s", "unknown"}}

\* service.py:89-94, 119
E_Enrich(results, filters, top_k, store) ==
    /\ last.op = "none"
    /\ Len(results) <= top_k
    /\ \A n \in 1..Len(results) : results[n].chunk_id \in Range(RrfIds)
    /\ last' = [op |-> "enrich", ranked |-> results, store |-> store,
                req |-> [filters |-> filters, top_k |-> top_k],
                results |-> Take(Enriched(results, [filters |-> filters], store), top_k)]
    /\ UNCHANGED rrfFrame

NextEnrich ==
    \E results \in RankedLists, filters \in EnrichFilters, top_k \in 1..(MaxTopK + 1),
       store \in CorpusIds : E_Enrich(results, filters, top_k, store)

SpecEnrich == Init /\ [][NextEnrich]_vars

(***************************************************************************)
(* The snippet of one chunk.  A content is the sequence of its words, a    *)
(* word [len, hit]: its length and whether it is a query term (a word of   *)
(* letters; the other words hold no query term).  The snippet is kept as   *)
(* its length.                                                             *)
(***************************************************************************)
max_length == 300

window_size == 50

EllipsisLen == 3

MarkLen == 13

Word(len, hit) == [hit |-> hit, len |-> len]

\* the contents: cnt words of one length, the words at the positions hits
\* being query terms
Content(cnt, len, hits) == [n \in 1..cnt |-> Word(len, n \in hits)]

HitSets(cnt) == {{}, 1..cnt} \cup {{p} : p \in 1..cnt}

\* len(" ".join(ws))
RECURSIVE SumLen(_)
SumLen(ws) == IF ws = <<>> THEN 0 ELSE Head(ws).len + SumLen(Tail(ws))

JoinLen(ws) == IF ws = <<>> THEN 0 ELSE SumLen(ws) + Len(ws) - 1

\* service.py:229-237  the first window of the highest score (0 when no
\* window has a query term)
WindowScore(words, i) ==
    Cardinality({n \in (i + 1)..Min(i + window_size, Len(words)) : words[n].hit})

best_start(words) ==
    IF words = <<>> THEN 0
    ELSE CHOOSE i \in 0..(Len(words) - 1) :
            \A j \in 0..(Len(words) - 1) :
                /\ WindowScore(words, j) <= WindowScore(words, i)
                /\ j < i => WindowScore(words, j) < WindowScore(words, i)

\* service.py:219-258  the length of the snippet: the joined window, cut to
\* max_length with "..." appended, "..." before and after it when the window
\* is not at the start or the end, and <mark></mark> around every query
\* term left whole
highlight_snippet(words) ==
    LET start == best_start(words)
        snippet_words == SubSeq(words, start + 1, Min(start + window_size, Len(words)))
        joined == JoinLen(snippet_words)
        cut == IF joined > max_length THEN max_length + EllipsisLen ELSE joined
        pre == IF start > 0 THEN EllipsisLen ELSE 0
        post == IF start + window_size < Len(words) THEN EllipsisLen ELSE 0
        marked == {n \in 1..Len(snippet_words) :
                     /\ snippet_words[n].hit
                     /\ JoinLen(SubSeq(snippet_words, 1, n)) <= max_length}
    IN  pre + cut + post + MarkLen * Cardinality(marked)

H_Snippet(words) ==
    /\ last.op = "none"
    /\ last' = [op |-> "snippet", words |-> words, start |-> best_start(words),
                length |-> highlight_snippet(words)]
    /\ UNCHANGED rrfFrame

NextSnippet ==
    \E cnt \in 0..(window_size + MaxExtraWords), len \in 1..MaxWordLen :
        \E hits \in HitSets(cnt) : H_Snippet(Content(cnt, len, hits))

SpecSnippet == Init /\ [][NextSnippet]_vars

(***************************************************************************)
(* Claims about the query cache.                                           *)
(***************************************************************************)

\* C1: after any sequence of get/set/invalidate calls on a cache with
\* max_size >= 1, the number of stored entries never exceeds max_size.
C1_SizeBounded == size <= max_size

\* C1 witness: a set of a new key found the cache full and left it full.
C1_Witness ==
    /\ last.op = "set"
    /\ last.overflow
    /\ size = max_size

\* C8: a get of a key whose entry was stored by set(q, R, f, K) and is still
\* held returns R when the entry's age is at most ttl_seconds, and returns
\* MISS and removes the entry when its age exceeds ttl_seconds.
C8_RoundTrip ==
    (last.op = "get" /\ ~last.set.none) =>
        IF last.at - last.set.at <= ttl_seconds
        THEN last.found /\ last.results = last.set.results
        ELSE ~last.found /\ last.key \notin Range(cache_order)

\* C8 witness: a get found an entry older than ttl_seconds.
C8_Witness ==
    /\ last.op = "get"
    /\ ~last.set.none
    /\ last.at - last.set.at > ttl_seconds
    /\ size > 0

\* an entry older than the TTL is treated as absent
Absent(k) ==
    \/ k \notin Range(cache_order)
    \/ Expired(cache_entry[k], now, ttl_seconds)

\* the keys the last set evicted
Evicted == last.before \ Range(cache_order)

\* C9, first half: after max_size + 1 inserts of distinct keys the
\* first-inserted key is absent if it was never read.
C9_FirstAbsent ==
    (/\ hist.nSets = max_size + 1
     /\ hist.distinct
     /\ hist.first.key \notin hist.everHit) => Absent(hist.first.key)

\* C9 as claimed: ... whereas every key read with a get hit after its insert
\* and before the overflowing insert is still present.
C9_Original ==
    /\ C9_FirstAbsent
    /\ (last.op = "set" /\ hist.nSets = max_size + 1 /\ hist.distinct) =>
           \A k \in last.hitBefore : k \in Range(cache_order)

\* C9 amended: when the insert finds the cache full, a key read with a get
\* hit is still present exactly if some other stored key had neither an
\* insert nor a hit since that read, and then the one key evicted is such a
\* key (the least recently used one); a read key that is itself the least
\* recently used is evicted.
C9_Amended ==
    /\ C9_FirstAbsent
    /\ (last.op = "set" /\ last.overflow) =>
           \A k \in last.hitBefore :
               IF last.staleBefore[k] # {}
               THEN /\ k \in Range(cache_order)
                    /\ Cardinality(Evicted) = 1
                    /\ Evicted \subseteq last.staleBefore[k]
               ELSE k \notin Range(cache_order)

\* C9 witness: the (max_size + 1)-th distinct insert overflowed a cache that
\* held a read key and an older unread one.
C9_Witness ==
    /\ last.op = "set"
    /\ last.overflow
    /\ hist.nSets = max_size + 1
    /\ hist.distinct
    /\ \E k \in last.hitBefore : last.staleBefore[k] # {} /\ k \in Range(cache_order)


(***************************************************************************)
(* Claims about the cache key.                                             *)
(***************************************************************************)

\* the value of a dict item, with the order of a list's elements forgotten
ItemValue(x) == [none |-> x.none, elems |-> Range(x.list), len |-> Len(x.list)]

\* the dict as a set of (key, value) items, the order of keys forgotten
ItemSet(d) == {[key |-> d[i].key, value |-> ItemValue(d[i])] : i \in 1..Len(d)}

\* filters equal up to the order of keys and of elements inside list values
SameFilters(f, g) ==
    /\ f.none = g.none
    /\ ~f.none => ItemSet(f.items) = ItemSet(g.items)

\* C10: two lookups address the same entry whenever their queries are equal
\* after lowercasing and trimming, their top_k are equal and their filters
\* are equal up to the order of keys and of the elements inside list values;
\* lookups with different top_k address different entries.
C10_SameEntry ==
    Len(lookups) = 2 =>
        LET a == lookups[1].req
            b == lookups[2].req
        IN  /\ (/\ Strip(Lower(a.query)) = Strip(Lower(b.query))
                /\ a.top_k = b.top_k
                /\ SameFilters(a.filters, b.filters))
               => lookups[1].key = lookups[2].key
            /\ a.top_k # b.top_k => lookups[1].key # lookups[2].key

(***************************************************************************)
(* Claims about the cache under threads.                                   *)
(***************************************************************************)

\* C7: with several threads calling get, set and invalidate, every call
\* takes effect atomically: in every reachable state the cache size is at
\* most max_size, and with no call in progress hits + misses equals the
\* number of get calls that completed.
C7_Atomic ==
    /\ size <= max_size
    /\ (\A t \in Threads : th[t].pc = "idle") =>
           /\ gets_done.raised = 0
           /\ ~gets_done.set_raised
           /\ c_hits + c_misses = gets_done.returned
(***************************************************************************)
(* Claims about the search service and the index manager.                  *)
(***************************************************************************)
\* C2: a search issued while the cache holds the entry of a completed search
\* of the same (query, filters, top_k), no older than ttl_seconds, is answered
\* at once with cache_hit = true and the result list of that search, whatever
\* that list was.
C2_SecondIsHit ==
    [][\A req \in SvcReqs, raises \in BOOLEAN :
         (/\ SearchStart(req, raises)
          /\ ~answered[KeyOf(req)].none
          /\ now - answered[KeyOf(req)].at <= ttl_seconds)
         => (/\ srch'.pc = "idle"
             /\ ~resp'.none
             /\ resp'.req = req
             /\ resp'.cache_hit
             /\ resp'.results = answered[KeyOf(req)].results)]_vars

\* C3: an observer that resolves current during a build which started with a
\* version active gets that prior version or the new one, never nothing and
\* never a directory whose files are still being written.
C3_AtomicActivation ==
    (~obs.none /\ ~obs.prior.none)
    => (/\ ~obs.current.none
        /\ obs.current.version \in {obs.prior.version, obs.version}
        /\ ~obs.writing)

\* C4: once indexes are loaded, the in-memory BM25 and dense indexes are those
\* the last load left (no build changes them), and a search waiting for the
\* metadata store holds the ranking of the indexes loaded when it ranked.
C4_BuildKeepsLoaded ==
    /\ loaded.ok => (bm25 = loaded.bm25 /\ vector = loaded.vector)
    /\ (srch.pc = "enrich" /\ srch.loaded.ok)
       => srch.results =
            retrieve_with_fallback(srch.loaded.bm25, srch.loaded.vector, srch.req.query,
                                   srch.req.top_k, srch.raised).results

\* the response list of a search that ranks against the loaded indexes ld
Expected(ld, req, raises, store) ==
    Take(Enriched(retrieve_with_fallback(ld.bm25, ld.vector, req.query, req.top_k,
                                         raises).results, req, store), req.top_k)

\* C5: after a load returned true and until the next build, the response of
\* every search issued is computed from the indexes of the loaded version,
\* whether it is answered from the cache or not.
C5_SearchUsesLoaded ==
    [][/\ \A req \in SvcReqs, raises \in BOOLEAN :
            (SearchStart(req, raises) /\ loaded.ok /\ loaded.fresh /\ srch'.pc = "idle")
            => \E r \in BOOLEAN, store \in CorpusIds :
                  resp'.results = Expected(loaded, req, r, store)
       /\ (SearchFinish /\ srch.loaded.ok /\ srch.loaded.fresh)
            => resp'.results = Expected(srch.loaded, srch.req, srch.raised, db)]_vars

\* C6: a BM25 search that ran while loads ran paired the scores of an index
\* with the chunk-id table of the same file.
C6_LoadAtomic == last.op = "bm25_search" => last.index = last.chunk_ids

\* C11: a cache hit returns the list as it was when it was passed to set,
\* whatever the callers did since to the list they passed or to a list a hit
\* returned.
C11_OwnCopy == (last.op = "get" /\ last.found) => last.value = last.set.results

(***************************************************************************)
(* Claims about the retrieval mode and the failures of a search.           *)
(***************************************************************************)
\* the mode that the readiness of the two retrievers alone gives
ModeByReadiness(b, v) ==
    IF bm25_is_ready(b) /\ vector_is_ready(v) THEN "hybrid"
    ELSE IF bm25_is_ready(b) THEN "bm25_only"
    ELSE IF vector_is_ready(v) THEN "vector_only"
    ELSE "hybrid"

\* a search that missed the cache ranks with mode m(req, raises) and, with no
\* retriever ready, an empty list; its response carries the mode it ranked with
MissMode(m(_, _)) ==
    /\ \A req \in SvcReqs, raises \in BOOLEAN :
          (srch'.pc = "enrich" /\ SearchStart(req, raises))
          => /\ srch'.mode = m(req, raises)
             /\ (~bm25_is_ready(bm25) /\ ~vector_is_ready(vector))
                => srch'.results = <<>>
    /\ SearchFinish
          => /\ ~resp'.cache_hit
             /\ resp'.retrieval_mode = srch.mode
             /\ srch.results = <<>> => resp'.results = <<>>

\* C12 as stated: on a cache miss the retrieval mode of the response is given
\* by the readiness of the retrievers alone (both: hybrid, BM25 only:
\* bm25_only, dense only: vector_only, neither: empty list with hybrid).
C12_Original ==
    [][LET m(req, raises) == ModeByReadiness(bm25, vector) IN MissMode(m)]_vars

\* C12: on a cache miss the retrieval mode of the response is given by the
\* readiness of the retrievers when the dense search does not raise (both:
\* hybrid, BM25 only: bm25_only, dense only: vector_only, neither: empty list
\* with hybrid), and is bm25_only when the dense retriever is ready and its
\* search raises.
C12_Amended ==
    [][LET m(req, raises) ==
               IF vector_is_ready(vector) /\ dense_raises(vector, raises)
               THEN "bm25_only" ELSE ModeByReadiness(bm25, vector)
       IN  MissMode(m)]_vars

\* a miss answered by the dense retriever alone
C12_Witness ==
    /\ ~resp.none
    /\ ~resp.cache_hit
    /\ resp.retrieval_mode = "vector_only"
    /\ resp.results # <<>>
    /\ ~bm25_is_ready(bm25)
    /\ vector_is_ready(vector)

\* C13: with both retrievers ready, a request whose dense search raises is
\* ranked by BM25 alone, and its response lists the BM25 results (enriched,
\* filtered and cut to top_k) with retrieval_mode bm25_only.
C13_DenseFailureDegrades ==
    [][/\ \A req \in SvcReqs, raises \in BOOLEAN :
             (/\ srch'.pc = "enrich"
              /\ bm25_is_ready(bm25) /\ vector_is_ready(vector)
              /\ dense_raises(vector, raises)
              /\ SearchStart(req, raises))
             => /\ srch'.mode = "bm25_only"
                /\ srch'.results = search_bm25_only(bm25, req.query, req.top_k)
       /\ (SearchFinish /\ srch.raised /\ bm25_is_ready(srch.loaded.bm25))
             => /\ ~resp'.none
                /\ resp'.retrieval_mode = "bm25_only"
                /\ resp'.results =
                     Take(Enriched(search_bm25_only(srch.loaded.bm25, srch.req.query,
                                                    srch.req.top_k),
                                   srch.req, db), srch.req.top_k)]_vars

\* a search ranked by BM25 after its dense search raised, both being ready
C13_Witness ==
    /\ srch.pc = "enrich"
    /\ srch.raised
    /\ bm25_is_ready(bm25) /\ vector_is_ready(vector)
    /\ bm25 = srch.loaded.bm25
    /\ srch.mode = "bm25_only"
    /\ srch.results # <<>>

\* C14: a search ranked while only the dense retriever was ready and whose
\* dense search raised does not complete with a normal response (the failure
\* reaches the caller instead).
C14_DenseOnlyFailureSurfaces ==
    [][~(/\ SearchFinish
         /\ srch.raised
         /\ ~bm25_is_ready(srch.loaded.bm25)
         /\ vector_is_ready(srch.loaded.vector))]_vars

\* the set of cached entries: each key with its list and its creation time
Entries(c) ==
    {[key |-> k, results |-> c.entry[k].results, created_at |-> c.entry[k].created_at] :
       k \in Range(c.order)}

\* the entries that the lookup of key k at time now finds expired
ExpiredAt(c, k) ==
    {e \in Entries(c) : e.key = k /\ now - e.created_at > ttl_seconds}

\* C15 as stated: the steps of a search that ends aborted (its lookup and
\* ranking, then the abort while it waits for the metadata store) leave the
\* set of cached entries as it was.
C15_Original ==
    [][/\ \A req \in SvcReqs, raises \in BOOLEAN :
             (srch'.pc = "enrich" /\ SearchStart(req, raises))
             => Entries(Dict') = Entries(Dict)
       /\ SearchAbort => Entries(Dict') = Entries(Dict)]_vars

\* C15: an aborted search inserts no entry; its lookup removes the entry of
\* its own key when that entry has expired and leaves every other entry, and
\* the abort itself leaves the set of cached entries as it was.
C15_Amended ==
    [][/\ \A req \in SvcReqs, raises \in BOOLEAN :
             (srch'.pc = "enrich" /\ SearchStart(req, raises))
             => Entries(Dict') = Entries(Dict) \ ExpiredAt(Dict, KeyOf(req))
       /\ SearchAbort => Entries(Dict') = Entries(Dict)]_vars

\* a lookup missed, the search is over, and no search was ever answered: the
\* search was aborted, and the cache holds nothing
C15_Witness ==
    /\ c_misses > 0
    /\ srch.pc = "idle"
    /\ resp.none
    /\ cache_order = <<>>

(***************************************************************************)
(* Claims about the index manager and the BM25 retriever.                  *)
(***************************************************************************)
\* the files that the build in progress is to write are those of its chunks
Written ==
    LET d == dirs[bld.version]
    IN  /\ ~d.bm25.none
        /\ d.bm25.chunk_ids = bld.chunks /\ d.bm25.corpus = bld.chunks
        /\ bld.include_vectors
           => /\ ~d.faiss.none /\ d.faiss.corpus = bld.chunks
              /\ ~d.idmap.none /\ d.idmap.corpus = bld.chunks

\* C16: current changes only in the activation that ends a build_indexes call
\* which read at least one chunk and has written every index file of its
\* version, and then to that version (through the removal of the old link);
\* a build that read no chunk, or that raised while building or saving, ends
\* with current as it was.
C16_ActivationLast ==
    [][/\ current' # current
          => /\ bld.pc = "activate"
             /\ ChunksOf(bld.chunks) # <<>>
             /\ Written
             /\ current' \in {NoLink, Link(bld.version)}
       /\ ActivateSymlink => bld'.pc = "idle"
       /\ (bld.pc # "idle" /\ bld'.pc = "idle" /\ ~ActivateSymlink)
          => current' = current]_vars

\* a finished build has repointed current to the version it wrote
C16_Witness ==
    /\ bld.pc = "idle"
    /\ bld.n > 0
    /\ ~current.none
    /\ ~dirs[current.version].bm25.none

\* C17: a dense index whose dimension differs from that of the model is
\* rejected by the load: the dense retriever is never ready with such an index.
C17_MismatchRejected == vector_is_ready(vector) => vector.dim = ModelDim

\* C18: right after build_index on an empty chunk list the retriever is
\* ready, its chunk_count is 0, and every search on it returns the empty list.
C18_EmptyBuildReady ==
    (last.op = "bm25_build" /\ ChunksOf(last.chunks) = <<>>)
    => LET r == inst[last.inst]
       IN  /\ bm25_is_ready(r.mem)
           /\ chunk_count(r) = 0
           /\ \A query \in SvcQueries, top_k \in 1..MaxTopK :
                 bm25_search(r.mem, query, top_k) = <<>>

\* C19: when a fresh retriever loads the file that a retriever j wrote with
\* save after build_index(X), it holds afterwards the k1, b, chunk-id table
\* and tokenized corpus of j, its BM25Okapi object (if j has a usable one) was
\* made with the same parameters, and search(q, top_k) returns on it the same
\* sequence as on j, for every q and top_k.
C19_LoadEqualsBuild ==
    [][\A i \in Instances, j \in Instances, X \in BuildInputs :
          (/\ j # i
           /\ inst[i].mem = BM25Empty /\ inst[i].okapi = NoOkapi
           /\ inst[j].mem = bm25_build_index(inst[j].mem, X)
           /\ saved = retriever_file(inst[j])
           /\ B_Load(i))
          => /\ inst'[i].k1 = inst[j].k1 /\ inst'[i].b = inst[j].b
             /\ inst'[i].mem.chunk_ids = inst[j].mem.chunk_ids
             /\ inst'[i].mem.corpus = inst[j].mem.corpus
             /\ bm25_is_ready(inst[j].mem) => inst'[i].okapi = inst[j].okapi
             /\ \A query \in SvcQueries, top_k \in 1..MaxTopK :
                   bm25_search(inst'[i].mem, query, top_k)
                     = bm25_search(inst[j].mem, query, top_k)]_vars

\* a retriever constructed with another k1 has loaded the file of a retriever
\* that built a corpus, and the two agree
C19_Witness ==
    /\ last.op = "bm25_load"
    /\ \E j \in Instances \ {last.inst} :
          /\ bm25_is_ready(inst[j].mem)
          /\ saved = retriever_file(inst[j])
          /\ inst[last.inst] = inst[j]
          /\ inst[j].k1 # NewRetriever.k1

(***************************************************************************)
(* Claims about the degraded modes of a search.                            *)
(***************************************************************************)
\* the response r lists the results of the BM25 search of b for req, in its
\* order, each with its BM25 rank and score alone, under the mode bm25_only
RespIsBm25(r, b, req) ==
    LET want == search_bm25_only(b, req.query, req.top_k)
    IN  /\ ~r.none
        /\ r.retrieval_mode = "bm25_only"
        /\ Len(r.results) = Len(want)
        /\ \A n \in 1..Len(want) :
              /\ r.results[n].chunk_id = want[n].chunk_id
              /\ r.results[n].scores.bm25_rank = n
              /\ r.results[n].scores.vector_rank = 0
              /\ r.results[n].scores.final_score = Frac(want[n].bm25_score)

FusedCandidates(b, v, query) == hybrid_search(b, v, query, fetch_k + fetch_k)

\* C21: the response of a hybrid search is the first top_k of the fused
\* candidates that have metadata and satisfy the filters, whenever at least
\* top_k of them do.
C21_FilterBeforeTruncate ==
    [][(SearchFinish /\ srch.mode = "hybrid")
       => LET matching == Enriched(FusedCandidates(srch.loaded.bm25, srch.loaded.vector,
                                                   srch.req.query),
                                   srch.req, db)
          IN  Len(matching) >= srch.req.top_k
              => resp'.results = Take(matching, srch.req.top_k)]_vars

(***************************************************************************)
(* Claims about the fusion and the BM25 ranking.                           *)
(***************************************************************************)
\* the position of a chunk id in ascending id order
IdRank(id) == IndexOf(RrfIds, id)

\* min(rank_b, rank_v) over the lists that hold the chunk
MinRank(x) ==
    IF x.bm25_rank = 0 THEN x.vector_rank
    ELSE IF x.vector_rank = 0 THEN x.bm25_rank
    ELSE Min(x.bm25_rank, x.vector_rank)

InBoth(x) == x.bm25_rank # 0 /\ x.vector_rank # 0

\* x comes before y under the tie-break chain for equal rrf scores
TieBefore(x, y) ==
    IF InBoth(x) # InBoth(y) THEN InBoth(x)
    ELSE IF MinRank(x) # MinRank(y) THEN MinRank(x) < MinRank(y)
    ELSE IdRank(x.chunk_id) < IdRank(y.chunk_id)

\* C22: the fused list is in descending rrf score, and of two results with
\* equal rrf score the one in both input lists comes first, then the one
\* with the smaller min(rank_b, rank_v), then the one with the smaller id
\* (stated here for the default weights).
C22_TieBreakChain ==
    (last.op = "rrf" /\ last.bm25_weight = bm25_weight
                    /\ last.vector_weight = vector_weight)
    => \A i, j \in 1..Len(last.results) :
          i < j
          => /\ ~FracLess(last.results[i].final_score, last.results[j].final_score)
             /\ ~FracLess(last.results[j].final_score, last.results[i].final_score)
                => TieBefore(last.results[i], last.results[j])

\* the rrf score of chunk id when the retrievers return b and v (0 when
\* neither list holds it), under the weights of the fusion just made
ScoreOf(b, v, id) ==
    LET all == rrf_fuse(last.bm25_weight, last.vector_weight, b, v, Len(b) + Len(v))
        mine(x) == x.chunk_id = id
    IN  IF SelectSeq(all, mine) = <<>> THEN Frac(0)
        ELSE SelectSeq(all, mine)[1].final_score

\* the rank of id is better in list y than in list x: smaller, or id is in y
\* and not in x
Improves(x, y, id) ==
    /\ RankIn(y, id) # 0
    /\ RankIn(x, id) = 0 \/ RankIn(y, id) < RankIn(x, id)

\* C23: for the lists b and v just fused and any chunk, replacing one of the
\* two lists by a list in which the chunk ranks better (or newly appears),
\* the other list being the same, does not decrease the chunk's rrf score.
C23_RrfMonotone ==
    last.op = "rrf"
    => \A n \in 1..Len(RrfIds), y \in RankedLists :
          LET id == RrfIds[n]
              b == last.bm25_results
              v == last.vector_results
          IN  /\ Improves(b, y, id)
                 => ~FracLess(ScoreOf(y, v, id), ScoreOf(b, v, id))
              /\ Improves(v, y, id)
                 => ~FracLess(ScoreOf(b, y, id), ScoreOf(b, v, id))

\* a fusion of two lists that both rank a chunk, and not first in one of them
C23_Witness ==
    /\ last.op = "rrf"
    /\ \E n \in 1..Len(RrfIds) :
          /\ RankIn(last.bm25_results, RrfIds[n]) > 1
          /\ RankIn(last.vector_results, RrfIds[n]) > 0

\* the document ordinals with a score above 0
Positive(scores) == {d \in 1..Len(scores) : scores[d] > 0}

\* document d ranks before document e: higher score, or the same score and
\* the smaller ordinal
RanksBefore(scores, d, e) ==
    scores[d] > scores[e] \/ (scores[d] = scores[e] /\ d < e)

\* C24: the search returns min(top_k, number of documents scoring above 0)
\* entries, each a document with its own score above 0, best first (higher
\* score, then smaller ordinal), and no document left out ranks before one
\* returned; with no score above 0 it returns the empty list.
C24_TopPositive ==
    last.op = "bm25_rank"
    => LET r == last.results
           sc == last.scores
           ord(n) == IndexOf(last.chunk_ids, r[n].chunk_id)
           out == {ord(n) : n \in 1..Len(r)}
       IN  /\ Len(r) = Min(last.top_k, Cardinality(Positive(sc)))
           /\ \A n \in 1..Len(r) :
                 /\ r[n].chunk_id \in Range(last.chunk_ids)
                 /\ r[n].score = sc[ord(n)]
                 /\ r[n].score > 0
           /\ \A n, m \in 1..Len(r) : n < m => RanksBefore(sc, ord(n), ord(m))
           /\ \A d \in Positive(sc) \ out : \A e \in out : RanksBefore(sc, e, d)
           /\ Positive(sc) = {} => r = <<>>

\* a ranking of three documents, two of them with the same positive score and
\* one with none, cut below the number of positive ones
C24_Witness ==
    /\ last.op = "bm25_rank"
    /\ Len(last.scores) = Len(RrfIds)
    /\ \E d, e \in Positive(last.scores) : d # e /\ last.scores[d] = last.scores[e]
    /\ \E d \in 1..Len(last.scores) : last.scores[d] <= 0
    /\ Len(last.results) = last.top_k
    /\ last.top_k < Cardinality(Positive(last.scores))


(***************************************************************************)
(* Claims about enrichment, filters and snippets.                          *)
(***************************************************************************)
\* a ranked chunk the metadata store holds, of a Source whose type and
\* project the filters of the request admit
SatisfiesFilters(r, req, store) ==
    LET items == FiltersOrEmpty(req.filters)
    IN  /\ InStore(store, r.chunk_id)
        /\ FilterGet(items, "source_types") # <<>>
              => StoreChunk(store, r.chunk_id).source_type
                   \in Range(FilterGet(items, "source_types"))
        /\ FilterGet(items, "projects") # <<>>
              => StoreChunk(store, r.chunk_id).project
                   \in Range(FilterGet(items, "projects"))

ResultIds(results) == [n \in 1..Len(results) |-> results[n].chunk_id]

\* C25: the results of a response are the chunks of the retriever's ranked
\* list that the metadata store holds and whose source type and project
\* satisfy the filters of the request, in the order of the ranked list.
C25_ResultsAreFilteredRanking ==
    last.op = "enrich"
    => LET ok(r) == SatisfiesFilters(r, last.req, last.store)
       IN  ResultIds(last.results) = ResultIds(SelectSeq(last.ranked, ok))

\* C26: a snippet is at most max_length characters and two "..." long.
C26_SnippetBound ==
    last.op = "snippet" => last.length <= max_length + 2 * EllipsisLen

(***************************************************************************)
(* Claims about loading and building index versions.                       *)
(***************************************************************************)
\* C27: a load_indexes call that returns false leaves the in-memory BM25 and
\* dense retrievers as they were before the call.
C27_FailedLoadChangesNothing ==
    [][(LoadIndexes /\ ~loaded'.returned) => (bm25' = bm25 /\ vector' = vector)]_vars

\* C28: after a load_indexes call that returns true, a retriever that is
\* ready holds the index of the files of the version current points to.
C28_ReadyMeansCurrent ==
    [][(LoadIndexes /\ loaded'.returned)
       => LET d == dirs[current.version]
          IN  /\ bm25_is_ready(bm25')
                   => IF d.bm25.none THEN FALSE ELSE bm25'.index = d.bm25.corpus
              /\ vector_is_ready(vector')
                   => IF d.faiss.none \/ d.idmap.none THEN FALSE
                      ELSE vector'.index = d.faiss.corpus]_vars

\* C29: a build_indexes call starts on a version directory that did not
\* exist, and no step of a build changes a file of the directory current
\* points to.
C29_FreshVersionDirectory ==
    [][/\ (bld.pc = "idle" /\ bld'.pc = "fetch") => ~dirs[bld'.version].exists
       /\ (bld.pc \notin {"idle", "activate"} /\ ~current.none)
            => dirs'[current.version] = dirs[current.version]]_vars

(***************************************************************************)
(* A claim about overwriting a cache entry.                                *)
(***************************************************************************)
\* C30: a set on a key the cache holds stores the new value under that key
\* and keeps every other entry as it was.
C30_OverwriteKeepsOthers ==
    [][\A req \in CacheReqs, results \in ResultLists :
         (KeyOf(req) \in Range(cache_order) /\ Set(req, results))
         => /\ Range(cache_order') = Range(cache_order)
            /\ cache_entry'[KeyOf(req)].results = results
            /\ \A k \in Range(cache_order) \ {KeyOf(req)} :
                   cache_entry'[k] = cache_entry[k]]_vars
============================================================================
